---- MODULE Spec2Model ----
(***************************************************************************)
(* A model of the CTTS concatenative text-to-speech engine (src/ctts.c):   *)
(* the unit database builder and its hash lookup, the text fold, the       *)
(* Portuguese unit selector, the synthesis loop with its sample buffer,    *)
(* the database open, and the module-wide normalisation rule table.        *)
(*                                                                         *)
(* Conventions.  A C string is a sequence of bytes 1..255; reading past    *)
(* its end yields the terminating NUL (0).  Positions are 1-based, unit    *)
(* indices are the C (0-based) ones.  A 32-bit unsigned value that does    *)
(* not fit the checker's integers is a pair <<high 16 bits, low 16 bits>>. *)
(***************************************************************************)
EXTENDS Integers, Sequences, FiniteSets



----------------------------------------------------------------------------
(* Bytes and C strings *)

Byte == 0..255

At(s, i) == IF i >= 1 /\ i <= Len(s) THEN s[i] ELSE 0

RECURSIVE FirstNul(_, _)
FirstNul(s, i) ==
    IF i > Len(s) THEN i
    ELSE IF s[i] = 0 THEN i
    ELSE FirstNul(s, i + 1)

\* The C string a byte buffer holds: the bytes before its first NUL.
CStr(s) == SubSeq(s, 1, FirstNul(s, 1) - 1)

RECURSIVE StrCmp(_, _, _)
StrCmp(s, t, i) ==
    LET a == At(s, i)
        b == At(t, i)
    IN IF a # b THEN (IF a < b THEN -1 ELSE 1)
       ELSE IF a = 0 THEN 0
       ELSE StrCmp(s, t, i + 1)

\* (b & 0xC0) == 0x80
IsCont(b) == b \div 64 = 2

\* static int utf8_char_len(const char* str)
utf8_char_len(s, i) ==
    LET c == At(s, i)
    IN IF c < 128 THEN 1
       ELSE IF c \div 32 = 6 THEN 2
       ELSE IF c \div 16 = 14 THEN 3
       ELSE IF c \div 8 = 30 THEN 4
       ELSE 1

\* One "if ((*s & 0xC0) == 0x80) cp |= (*s++ & 0x3F) << shift" of ctts_utf8_next:
\* st is <<cp, position>>, mul is 2^shift.
ContStep(s, st, mul) ==
    IF IsCont(At(s, st[2]))
    THEN <<st[1] + ((At(s, st[2]) % 64) * mul), st[2] + 1>>
    ELSE st

\* uint32_t ctts_utf8_next(const char** str): the code point and the new position.
ctts_utf8_next(s, i) ==
    LET b == At(s, i)
        r == IF b < 128 THEN <<b, i + 1>>
             ELSE IF b \div 32 = 6 THEN
                 ContStep(s, <<(b % 32) * 64, i + 1>>, 1)
             ELSE IF b \div 16 = 14 THEN
                 ContStep(s, ContStep(s, <<(b % 16) * 4096, i + 1>>, 64), 1)
             ELSE IF b \div 8 = 30 THEN
                 ContStep(s, ContStep(s, ContStep(s,
                     <<(b % 8) * 262144, i + 1>>, 4096), 64), 1)
             ELSE <<63, i + 1>>
    IN [cp |-> r[1], next |-> r[2]]

\* size_t ctts_utf8_strlen(const char* str)
RECURSIVE ctts_utf8_strlen(_, _)
ctts_utf8_strlen(s, i) ==
    IF At(s, i) = 0 THEN 0
    ELSE (IF IsCont(At(s, i)) THEN 0 ELSE 1) + ctts_utf8_strlen(s, i + 1)

\* The lower-casing with 'z' for 'Z' as the end of its first range.
unicode_tolower_wide(cp) ==
    IF cp >= 65 /\ cp <= 122 THEN cp + 32
    ELSE IF cp = 201 THEN 233
    ELSE IF cp = 211 THEN 243
    ELSE IF cp = 212 THEN 244
    ELSE IF cp = 199 THEN 231
    ELSE cp

\* static uint32_t unicode_tolower(uint32_t cp)
unicode_tolower(cp) ==
    IF cp >= 65 /\ cp <= 90 THEN cp + 32
    ELSE IF cp = 201 THEN 233
    ELSE IF cp = 211 THEN 243
    ELSE IF cp = 212 THEN 244
    ELSE IF cp = 199 THEN 231
    ELSE cp

\* static int utf8_encode(uint32_t cp, char* out): the bytes written.
utf8_encode(cp) ==
    IF cp < 128 THEN <<cp>>
    ELSE IF cp < 2048 THEN <<192 + (cp \div 64), 128 + (cp % 64)>>
    ELSE IF cp < 65536 THEN
        <<224 + (cp \div 4096), 128 + ((cp \div 64) % 64), 128 + (cp % 64)>>
    ELSE <<240 + (cp \div 262144), 128 + ((cp \div 4096) % 64),
           128 + ((cp \div 64) % 64), 128 + (cp % 64)>>

RECURSIVE NormalizeFrom(_, _)
NormalizeFrom(s, i) ==
    IF At(s, i) = 0 THEN <<>>
    ELSE LET d == ctts_utf8_next(s, i)
         IN utf8_encode(unicode_tolower(d.cp)) \o NormalizeFrom(s, d.next)

\* The fold as a byte-wise ASCII lower-casing, with no decoding and re-encoding.
ctts_normalize_bytes(text) ==
    CStr([i \in 1..Len(text) |->
             IF text[i] >= 65 /\ text[i] <= 90 THEN text[i] + 32 ELSE text[i]])

\* char* ctts_normalize(const char* text): the case/diacritic fold.  The result is
\* read back as a C string, so a code point 0 that the decoder makes of an overlong
\* sequence ends it.
ctts_normalize(text) == CStr(NormalizeFrom(text, 1))

----------------------------------------------------------------------------
(* FNV-1a, 32 bits, on 16-bit halves *)

\* FNV_OFFSET_BASIS 2166136261U = 0x811C9DC5
FNV_OFFSET_BASIS == <<33052, 40389>>
\* FNV_PRIME 16777619U = 0x01000193
FNV_PRIME == <<256, 403>>

RECURSIVE XorBits(_, _, _)
XorBits(a, b, n) ==
    IF n = 0 THEN 0
    ELSE (IF (a % 2) = (b % 2) THEN 0 ELSE 1) + (2 * XorBits(a \div 2, b \div 2, n - 1))

\* hash ^= (unsigned char)str[i]
HashXor(h, byte) == <<h[1], ((h[2] \div 256) * 256) + XorBits(h[2] % 256, byte, 8)>>

\* hash *= FNV_PRIME, modulo 2^32
HashMul(h) ==
    LET lo == h[2] * FNV_PRIME[2]
    IN <<((lo \div 65536) + (h[1] * FNV_PRIME[2]) + (h[2] * FNV_PRIME[1])) % 65536,
         lo % 65536>>

RECURSIVE HashFrom(_, _, _)
HashFrom(h, s, i) ==
    IF i > Len(s) THEN h
    ELSE HashFrom(HashMul(HashXor(h, s[i])), s, i + 1)

\* uint32_t ctts_hash(const char* str, size_t len)
ctts_hash(s) == HashFrom(FNV_OFFSET_BASIS, s, 1)

\* hash % hash_table_size
HashSlot(h, size) == (((h[1] % size) * (65536 % size)) + h[2]) % size

----------------------------------------------------------------------------
(* The database builder: ctts_build_database *)

\* The sentinel 0xFFFFFFFF that ends a chain and marks an empty bucket.
EMPTY == -1

MaxUnits == 3

\* Index lines "filename|text|display" with the sample count of the unit's WAV.
\* "a" occurs twice (a letter and a syllable file may both list it) and "A"
\* folds to "a"; "ra" shares a bucket with "a", and "c", "ab", "ha" share one.
RawUnits ==
    { [text |-> <<97>>, sample_count |-> 2],
      [text |-> <<65>>, sample_count |-> 3],
      [text |-> <<114, 97>>, sample_count |-> 1],
      [text |-> <<99>>, sample_count |-> 0],
      [text |-> <<97, 98>>, sample_count |-> 1],
      [text |-> <<195, 135>>, sample_count |-> 1] }

RECURSIVE SeqsUpTo(_, _)
SeqsUpTo(S, n) ==
    IF n = 0 THEN {<<>>}
    ELSE LET shorter == SeqsUpTo(S, n - 1)
         IN shorter \cup {Append(q, x) : q \in {r \in shorter : Len(r) = n - 1}, x \in S}

\* load_units_from_index, one line: the BuildUnit it appends.
LoadUnit(line) ==
    LET normalized == ctts_normalize(line.text)
    IN [text |-> normalized,
        text_len |-> Len(normalized),
        char_count |-> ctts_utf8_strlen(normalized, 1),
        sample_count |-> line.sample_count,
        hash |-> ctts_hash(normalized)]

\* static int compare_units(const void* a, const void* b)
compare_units(ua, ub) ==
    IF ub.char_count # ua.char_count
    THEN ub.char_count - ua.char_count
    ELSE StrCmp(ua.text, ub.text, 1)

\* What qsort guarantees of its result.
IsSorted(us) ==
    \A i, j \in 1..Len(us) : i < j => compare_units(us[i], us[j]) <= 0

IndexPerms(n) ==
    {f \in [1..n -> 1..n] : \A i, j \in 1..n : i # j => f[i] # f[j]}

\* The orders qsort may leave the units in: it is not stable, so units that
\* compare equal (the same text) come out in either order.
QsortResults(us) ==
    {r \in {[i \in 1..Len(us) |-> us[f[i]]] : f \in IndexPerms(Len(us))} : IsSorted(r)}

\* while (hash_table_size < total_count / HASH_TABLE_LOAD) hash_table_size *= 2;
\* HASH_TABLE_LOAD is 0.7, so the test is 7 * size < 10 * total_count.
RECURSIVE HashTableSize(_, _)
HashTableSize(size, total_count) ==
    IF 7 * size < 10 * total_count
    THEN HashTableSize(size * 2, total_count)
    ELSE size

RECURSIVE MaxChars(_, _)
MaxChars(us, i) ==
    IF i > Len(us) THEN 0
    ELSE LET m == MaxChars(us, i + 1)
         IN IF us[i].char_count > m THEN us[i].char_count ELSE m

RECURSIVE SumSamples(_, _)
SumSamples(us, i) ==
    IF i > Len(us) THEN 0 ELSE us[i].sample_count + SumSamples(us, i + 1)

\* calloc'ed CTTSIndexEntry
ZeroEntry ==
    [hash |-> <<0, 0>>, string_offset |-> 0, string_len |-> 0, char_count |-> 0,
     audio_offset |-> 0, sample_count |-> 0, next_hash |-> 0]

\* The image before the insertion loop: header, zeroed index, emptied hash table.
NewDatabase(us) ==
    LET size == HashTableSize(1, Len(us))
    IN [unit_count |-> Len(us),
        max_unit_chars |-> MaxChars(us, 1),
        total_samples |-> SumSamples(us, 1),
        hash_table_size |-> size,
        index |-> [i \in 1..Len(us) |-> ZeroEntry],
        hash_table |-> [b \in 1..size |-> EMPTY],
        strings |-> <<>>,
        string_pos |-> 0,
        audio_pos |-> 0]

\* while (index[prev].next_hash != 0xFFFFFFFF) prev = index[prev].next_hash;
RECURSIVE ChainTail(_, _)
ChainTail(index, prev) ==
    IF index[prev + 1].next_hash # EMPTY
    THEN ChainTail(index, index[prev + 1].next_hash)
    ELSE prev

\* ChainAppend with the walk to the chain's tail forgotten: the new entry is
\* linked straight after the bucket head.
ChainAppend_head(index, head, i) ==
    [index EXCEPT ![head + 1].next_hash = i]

\* The index after "Insert into hash table with chaining" appended i to the
\* chain that starts at head.
ChainAppend(index, head, i) ==
    LET prev == ChainTail(index, head)
    IN [index EXCEPT ![prev + 1].next_hash = i]

\* One iteration of the insertion loop, for unit i (0-based).
InsertUnit(d, us, i) ==
    LET unit == us[i + 1]
        entry == [hash |-> unit.hash,
                  string_offset |-> d.string_pos,
                  string_len |-> unit.text_len % 65536,
                  char_count |-> unit.char_count % 65536,
                  audio_offset |-> d.audio_pos,
                  sample_count |-> unit.sample_count,
                  next_hash |-> EMPTY]
        index1 == [d.index EXCEPT ![i + 1] = entry]
        slot == HashSlot(unit.hash, d.hash_table_size)
        head == d.hash_table[slot + 1]
    IN [d EXCEPT
          !.index = IF head = EMPTY THEN index1 ELSE ChainAppend(index1, head, i),
          !.hash_table = IF head = EMPTY THEN [@ EXCEPT ![slot + 1] = i] ELSE @,
          !.string_pos = @ + unit.text_len + 1,
          !.audio_pos = @ + unit.sample_count]

RECURSIVE StringPool(_, _)
StringPool(us, i) ==
    IF i > Len(us) THEN <<>>
    ELSE us[i].text \o <<0>> \o StringPool(us, i + 1)

\* fwrite of the string pool: each text with its NUL, in index order.
WriteStrings(d, us) == [d EXCEPT !.strings = StringPool(us, 1)]

RECURSIVE InsertAll(_, _, _)
InsertAll(d, us, i) ==
    IF i >= Len(us) THEN d ELSE InsertAll(InsertUnit(d, us, i), us, i + 1)

\* The whole of ctts_build_database on sorted units.
BuildDatabase(us) == WriteStrings(InsertAll(NewDatabase(us), us, 0), us)

----------------------------------------------------------------------------
(* Unit lookup: find_unit *)

\* memcmp(engine->strings + string_offset, text, len) == 0
PoolEquals(strings, offset, q) ==
    \A k \in 1..Len(q) : At(strings, offset + k) = q[k]

\* FindFrom that accepts the first entry of the chain with the query's length,
\* without the hash and memcmp tests.
RECURSIVE FindFrom_lenonly(_, _, _, _)
FindFrom_lenonly(d, idx, hash, q) ==
    IF idx = EMPTY THEN -1
    ELSE LET entry == d.index[idx + 1]
         IN IF entry.string_len = Len(q)
            THEN idx
            ELSE FindFrom_lenonly(d, entry.next_hash, hash, q)

\* The chain walk of find_unit from idx.
RECURSIVE FindFrom(_, _, _, _)
FindFrom(d, idx, hash, q) ==
    IF idx = EMPTY THEN -1
    ELSE LET entry == d.index[idx + 1]
         IN IF entry.hash = hash /\ entry.string_len = Len(q)
               /\ PoolEquals(d.strings, entry.string_offset, q)
            THEN idx
            ELSE FindFrom(d, entry.next_hash, hash, q)

\* static int find_unit(CTTS* engine, const char* text, size_t len)
find_unit(d, q) ==
    LET hash == ctts_hash(q)
        slot == HashSlot(hash, d.hash_table_size)
    IN FindFrom(d, d.hash_table[slot + 1], hash, q)

\* The text the string pool holds for index entry idx.
UnitText(d, idx) ==
    LET e == d.index[idx + 1]
    IN SubSeq(d.strings, e.string_offset + 1, e.string_offset + e.string_len)

----------------------------------------------------------------------------
(* Portuguese pronunciation rules *)

\* c1 >= 'A' && c1 <= 'Z' ? c1 + 32 : c1
LowerAscii(c) == IF c >= 65 /\ c <= 90 THEN c + 32 ELSE c

\* static int is_vowel(uint32_t cp)
is_vowel(cp) ==
    \/ cp \in {97, 101, 105, 111, 117, 65, 69, 73, 79, 85}
    \/ cp \in {225, 193, 224, 192, 226, 194, 227, 195, 233, 201, 234, 202,
               237, 205, 243, 211, 244, 212, 245, 213, 250, 218, 252, 220}

\* static int is_pt_consonant(uint32_t cp)
is_pt_consonant(cp) ==
    LET c1 == IF cp >= 65 /\ cp <= 90 THEN cp + 32 ELSE cp
        c2 == IF c1 = 199 THEN 231 ELSE c1
    IN (c2 >= 97 /\ c2 <= 122 /\ ~is_vowel(c2)) \/ c2 = 231

\* static int is_pt_digraph(const char* text, size_t len), text = {b1, b2, ...}
is_pt_digraph(b1, b2, len) ==
    LET c1 == LowerAscii(b1)
        c2 == LowerAscii(b2)
    IN /\ len >= 2
       /\ \/ (c1 = 99 /\ c2 = 104)
          \/ (c1 = 108 /\ c2 = 104)
          \/ (c1 = 110 /\ c2 = 104)
          \/ (c1 = 113 /\ c2 = 117)
          \/ (c1 = 103 /\ c2 = 117)

\* static int is_pt_valid_cluster(const char* text, size_t len)
is_pt_valid_cluster(b1, b2, len) ==
    LET c1 == LowerAscii(b1)
        c2 == LowerAscii(b2)
    IN /\ len >= 2
       /\ IF c2 = 114 THEN c1 \in {112, 98, 116, 100, 99, 103, 102, 118}
          ELSE IF c2 = 108 THEN c1 \in {112, 98, 99, 103, 102}
          ELSE FALSE

\* pt_reject_single_consonant without the word-start rule: only the digraph
\* test is left.
pt_reject_noword(s, pos, match_char_count, at_word_start) ==
    LET d == ctts_utf8_next(s, pos)
    IN /\ match_char_count = 1
       /\ ~is_vowel(d.cp)
       /\ At(s, d.next) # 0
       /\ is_pt_digraph(LowerAscii(d.cp) % 256, LowerAscii(At(s, d.next)), 2)

\* pt_reject_single_consonant without the digraph test: only the word-start
\* rule is left.
pt_reject_nodigraph(s, pos, match_char_count, at_word_start) ==
    LET d == ctts_utf8_next(s, pos)
    IN /\ match_char_count = 1
       /\ ~is_vowel(d.cp)
       /\ at_word_start

\* static int pt_reject_single_consonant(const char* pos, size_t match_char_count,
\*                                       int at_word_start)
\* test[0] is a char, so the code point is cut to its low byte.
pt_reject_single_consonant(s, pos, match_char_count, at_word_start) ==
    LET d == ctts_utf8_next(s, pos)
    IN /\ match_char_count = 1
       /\ ~is_vowel(d.cp)
       /\ \/ at_word_start
          \/ /\ At(s, d.next) # 0
             /\ is_pt_digraph(LowerAscii(d.cp) % 256, LowerAscii(At(s, d.next)), 2)

\* The last code point decoded in [pos, pos + byte_len); 0 if there is none.
RECURSIVE LastCp(_, _, _, _)
LastCp(s, p, limit, last) ==
    IF p >= limit THEN last
    ELSE LET d == ctts_utf8_next(s, p)
         IN LastCp(s, d.next, limit, d.cp)

\* static int pt_syllable_score(const char* text, size_t byte_len,
\*                              size_t char_count, int at_word_start)
pt_syllable_score(s, pos, byte_len, char_count, at_word_start) ==
    LET first == ctts_utf8_next(s, pos)
        first_is_consonant == is_pt_consonant(first.cp)
        b1 == At(s, pos)
        b2 == At(s, pos + 1)
        pattern ==
            IF char_count >= 2
            THEN (IF is_pt_digraph(b1, b2, byte_len) THEN 20 ELSE 0)
                 + (IF first_is_consonant /\ is_pt_valid_cluster(b1, b2, byte_len)
                    THEN 15 ELSE 0)
            ELSE 0
        onset ==
            IF at_word_start /\ first_is_consonant
            THEN IF char_count = 1 THEN -100
                 ELSE IF At(s, first.next) # 0
                         /\ is_vowel(ctts_utf8_next(s, first.next).cp)
                      THEN 25 ELSE 0
            ELSE 0
        open == IF is_vowel(LastCp(s, pos, pos + byte_len, 0)) THEN 10 ELSE 0
    IN IF char_count = 0 THEN -1000
       ELSE (char_count * 10) + pattern + onset + open

----------------------------------------------------------------------------
(* Phoneme classes and the adaptive crossfade *)

Plosives == {112, 116, 107, 98, 100, 103}
Fricatives == {102, 118, 115, 122, 120, 106}

\* static PhonemeType classify_first_phoneme(const char* text, size_t len)
classify_first_phoneme(text) ==
    LET len == Len(text)
        c == LowerAscii(At(text, 1))
    IN IF len = 0 THEN "OTHER"
       ELSE IF is_vowel(ctts_utf8_next(text, 1).cp) THEN "VOWEL"
       ELSE IF c \in Plosives THEN "PLOSIVE"
       ELSE IF c \in Fricatives THEN "FRICATIVE"
       ELSE IF len >= 2 /\ c = 99 /\ At(text, 2) \in {104, 72} THEN "FRICATIVE"
       ELSE IF c \in {109, 110} THEN "NASAL"
       ELSE IF c \in {108, 114} THEN "LIQUID"
       ELSE "OTHER"

\* The start of the last character of text: "while (p < text + len) { last = p; ... }"
RECURSIVE LastCharStart(_, _, _)
LastCharStart(text, p, last) ==
    IF p > Len(text) THEN last
    ELSE LastCharStart(text, p + utf8_char_len(text, p), p)

\* static PhonemeType classify_last_phoneme(const char* text, size_t len)
classify_last_phoneme(text) ==
    LET len == Len(text)
        c == LowerAscii(At(text, len))
        c2 == LowerAscii(At(text, len - 1))
    IN IF len = 0 THEN "OTHER"
       ELSE IF is_vowel(ctts_utf8_next(text, LastCharStart(text, 1, 1)).cp) THEN "VOWEL"
       ELSE IF len >= 2 /\ c2 = 108 /\ c = 104 THEN "LIQUID"
       ELSE IF len >= 2 /\ c2 = 110 /\ c = 104 THEN "NASAL"
       ELSE IF len >= 2 /\ c2 = 99 /\ c = 104 THEN "FRICATIVE"
       ELSE IF c \in Plosives THEN "PLOSIVE"
       ELSE IF c \in Fricatives THEN "FRICATIVE"
       ELSE IF c \in {109, 110} THEN "NASAL"
       ELSE IF c \in {108, 114} THEN "LIQUID"
       ELSE "OTHER"

\* static int ends_with_s(const char* text, size_t len)
ends_with_s(text) ==
    Len(text) # 0 /\ ctts_utf8_next(text, LastCharStart(text, 1, 1)).cp \in {115, 83}

\* static int ends_with_r(const char* text, size_t len)
ends_with_r(text) ==
    Len(text) # 0 /\ ctts_utf8_next(text, LastCharStart(text, 1, 1)).cp \in {114, 82}

\* get_adaptive_crossfade with the fricative test ahead of the test for an
\* outgoing plosive.
get_adaptive_crossfade_fricative(prev_end, next_start, config) ==
    LET base == config.crossfade_ms
    IN IF next_start = "PLOSIVE" THEN (base * 2) \div 10
       ELSE IF next_start = "FRICATIVE" \/ prev_end = "FRICATIVE" THEN (base * 4) \div 10
       ELSE IF prev_end = "PLOSIVE" THEN (base * 3) \div 10
       ELSE IF prev_end = "VOWEL" /\ next_start = "VOWEL" THEN config.crossfade_vowel_ms
       ELSE IF prev_end = "VOWEL" /\ next_start # "VOWEL"
            THEN (base * config.vowel_to_consonant_factor) \div 100
       ELSE IF prev_end \in {"NASAL", "LIQUID"} \/ next_start \in {"NASAL", "LIQUID"}
            THEN (base * 7) \div 10
       ELSE base

\* static float get_adaptive_crossfade(PhonemeType prev_end, PhonemeType next_start,
\*                                     const CTTSConfig* config)
\* Durations are in hundredths of a millisecond; base * 0.2f is base * 2 / 10.
get_adaptive_crossfade(prev_end, next_start, config) ==
    LET base == config.crossfade_ms
    IN IF next_start = "PLOSIVE" THEN (base * 2) \div 10
       ELSE IF prev_end = "PLOSIVE" THEN (base * 3) \div 10
       ELSE IF next_start = "FRICATIVE" \/ prev_end = "FRICATIVE" THEN (base * 4) \div 10
       ELSE IF prev_end = "VOWEL" /\ next_start = "VOWEL" THEN config.crossfade_vowel_ms
       ELSE IF prev_end = "VOWEL" /\ next_start # "VOWEL"
            THEN (base * config.vowel_to_consonant_factor) \div 100
       ELSE IF prev_end \in {"NASAL", "LIQUID"} \/ next_start \in {"NASAL", "LIQUID"}
            THEN (base * 7) \div 10
       ELSE base
----------------------------------------------------------------------------
(* Unit selection: find_longest_match and find_best_match_with_lookahead *)

\* MatchCandidate candidates[64]
MaxCandidates == 64

Min(a, b) == IF a < b THEN a ELSE b

\* The len bytes of s from pos on (NUL past the end of the string).
Bytes(s, pos, len) == [k \in 1..len |-> At(s, pos + k - 1)]

\* strlen(pos)
StrLen(s, pos) == IF pos > Len(s) THEN 0 ELSE FirstNul(s, pos) - pos

\* while (*tmp) { remaining_chars++; tmp += utf8_char_len(tmp); }
RECURSIVE RemainingChars(_, _)
RemainingChars(s, pos) ==
    IF At(s, pos) = 0 THEN 0
    ELSE 1 + RemainingChars(s, pos + utf8_char_len(s, pos))

\* for (c = 0; c < try_chars && *end; c++) end += utf8_char_len(end);
RECURSIVE EndAfter(_, _, _)
EndAfter(s, end, try_chars) ==
    IF try_chars = 0 \/ At(s, end) = 0 THEN end
    ELSE EndAfter(s, end + utf8_char_len(s, end), try_chars - 1)

\* "Move back one character": the start of the last character that begins
\* before end, scanning from pos.
RECURSIVE PrevEnd(_, _, _)
PrevEnd(s, scan, end) ==
    LET next == scan + utf8_char_len(s, scan)
    IN IF next >= end THEN scan ELSE PrevEnd(s, next, end)

\* The "Try decreasing lengths" loop of find_longest_match.
RECURSIVE LongestFrom(_, _, _, _)
LongestFrom(d, s, pos, end) ==
    IF end <= pos THEN 0
    ELSE IF find_unit(d, Bytes(s, pos, end - pos)) >= 0 THEN end - pos
    ELSE LongestFrom(d, s, pos, PrevEnd(s, pos, end))

\* static size_t find_longest_match(CTTS* engine, const char* pos, size_t max_chars)
\* The result is a byte length; try_chars is capped by the bytes that remain.
find_longest_match(d, s, pos, max_chars) ==
    LET try_chars == Min(max_chars, StrLen(s, pos))
    IN LongestFrom(d, s, pos, EndAfter(s, pos, try_chars))

\* "Build list of all matches from longest to shortest"
RECURSIVE CollectCandidates(_, _, _, _, _, _, _)
CollectCandidates(d, s, pos, end, char_count, at_word_start, acc) ==
    IF end <= pos \/ Len(acc) >= MaxCandidates THEN acc
    ELSE LET try_len == end - pos
             unit_idx == find_unit(d, Bytes(s, pos, try_len))
             acc1 ==
                 IF unit_idx >= 0
                    /\ ~pt_reject_single_consonant(s, pos, char_count, at_word_start)
                 THEN Append(acc,
                        [byte_len |-> try_len,
                         char_count |-> char_count,
                         unit_idx |-> unit_idx,
                         next_match_len |-> 0,
                         pt_score |-> pt_syllable_score(s, pos, try_len, char_count,
                                                        at_word_start)])
                 ELSE acc
         IN CollectCandidates(d, s, pos, PrevEnd(s, pos, end), char_count - 1,
                              at_word_start, acc1)

\* while (*next_pos == ' ' || *next_pos == '\t' || *next_pos == '\n') next_pos++;
RECURSIVE SkipLookaheadSpace(_, _)
SkipLookaheadSpace(s, p) ==
    IF At(s, p) \in {32, 9, 10} THEN SkipLookaheadSpace(s, p + 1) ELSE p

\* "For each candidate, find the longest match at the next position"
Lookahead(d, s, pos, max_chars, cand) ==
    LET next_pos == SkipLookaheadSpace(s, pos + cand.byte_len)
    IN IF At(s, next_pos) # 0
       THEN [cand EXCEPT !.next_match_len = find_longest_match(d, s, next_pos, max_chars)]
       ELSE cand

\* The iteration without the tie-break: on equal score and total the best so
\* far is kept.
SelectStep_notie(cands, b, i) ==
    LET curr == cands[i]
        total == curr.char_count + curr.next_match_len
    IN IF curr.pt_score > b[2] THEN <<i, curr.pt_score, total>>
       ELSE IF curr.pt_score = b[2] /\ total > b[3] THEN <<i, b[2], total>>
       ELSE b

\* One iteration of the selection loop; b is <<best_idx, best_pt_score, best_total>>
\* with best_idx 1-based.
SelectStep(cands, b, i) ==
    LET curr == cands[i]
        best == cands[b[1]]
        total == curr.char_count + curr.next_match_len
        best_at_end == best.next_match_len = 0
        curr_at_end == curr.next_match_len = 0
    IN IF curr.pt_score > b[2] THEN <<i, curr.pt_score, total>>
       ELSE IF curr.pt_score = b[2] THEN
           IF total > b[3] THEN <<i, b[2], total>>
           ELSE IF total = b[3] THEN
               IF best_at_end /\ ~curr_at_end THEN b
               ELSE IF ~best_at_end /\ curr_at_end THEN <<i, b[2], b[3]>>
               ELSE IF best_at_end /\ curr_at_end THEN
                   (IF curr.char_count > best.char_count THEN <<i, b[2], b[3]>> ELSE b)
               ELSE (IF curr.next_match_len > best.next_match_len
                     THEN <<i, b[2], b[3]>> ELSE b)
           ELSE b
       ELSE b

RECURSIVE SelectLoop(_, _, _)
SelectLoop(cands, b, i) ==
    IF i > Len(cands) THEN b
    ELSE SelectLoop(cands, SelectStep(cands, b, i), i + 1)

\* "For each candidate, find the longest match at the next position", skipped
\* when there is at most one candidate.
WithLookahead(d, s, pos, max_chars, found) ==
    IF Len(found) <= 1 THEN found
    ELSE [i \in 1..Len(found) |-> Lookahead(d, s, pos, max_chars, found[i])]

\* The candidates of a selector call, after the rejection rule, in the order
\* the code collects them (longest first), with their look-ahead filled in.
Candidates(d, s, pos, max_chars, at_word_start) ==
    WithLookahead(d, s, pos, max_chars,
        CollectCandidates(d, s, pos,
                          EndAfter(s, pos, Min(max_chars, RemainingChars(s, pos))),
                          Min(max_chars, RemainingChars(s, pos)), at_word_start, <<>>))

NoMatch == [len |-> 0, idx |-> -1, char_count |-> 0]

Selected(cand) ==
    [len |-> cand.byte_len, idx |-> cand.unit_idx, char_count |-> cand.char_count]

\* The end of find_best_match_with_lookahead: none, the only one, or the best.
SelectBest(cands) ==
    IF Len(cands) = 0 THEN NoMatch
    ELSE IF Len(cands) = 1 THEN Selected(cands[1])
    ELSE Selected(cands[SelectLoop(cands,
                      <<1, cands[1].pt_score,
                        cands[1].char_count + cands[1].next_match_len>>, 2)[1]])

\* static size_t find_best_match_with_lookahead(CTTS* engine, const char* pos,
\*     size_t max_chars, int* out_unit_idx, int at_word_start)
\* The byte length returned, *out_unit_idx, and the candidate's char_count.
find_best_match_with_lookahead(d, s, pos, max_chars, at_word_start) ==
    IF StrLen(s, pos) = 0 THEN NoMatch
    ELSE SelectBest(Candidates(d, s, pos, max_chars, at_word_start))
----------------------------------------------------------------------------
(* Number expansion (Portuguese) *)

\* static const char* units_pt[]: the words of 0..19, as UTF-8 bytes.
units_pt ==
    << <<>>,
       <<117, 109>>,
       <<100, 111, 105, 115>>,
       <<116, 114, 195, 170, 115>>,
       <<113, 117, 97, 116, 114, 111>>,
       <<99, 105, 110, 99, 111>>,
       <<115, 101, 105, 115>>,
       <<115, 101, 116, 101>>,
       <<111, 105, 116, 111>>,
       <<110, 111, 118, 101>>,
       <<100, 101, 122>>,
       <<111, 110, 122, 101>>,
       <<100, 111, 122, 101>>,
       <<116, 114, 101, 122, 101>>,
       <<113, 117, 97, 116, 111, 114, 122, 101>>,
       <<113, 117, 105, 110, 122, 101>>,
       <<100, 101, 122, 101, 115, 115, 101, 105, 115>>,
       <<100, 101, 122, 101, 115, 115, 101, 116, 101>>,
       <<100, 101, 122, 111, 105, 116, 111>>,
       <<100, 101, 122, 101, 110, 111, 118, 101>> >>

\* static const char* tens_pt[]
tens_pt ==
    << <<>>,
       <<>>,
       <<118, 105, 110, 116, 101>>,
       <<116, 114, 105, 110, 116, 97>>,
       <<113, 117, 97, 114, 101, 110, 116, 97>>,
       <<99, 105, 110, 113, 117, 101, 110, 116, 97>>,
       <<115, 101, 115, 115, 101, 110, 116, 97>>,
       <<115, 101, 116, 101, 110, 116, 97>>,
       <<111, 105, 116, 101, 110, 116, 97>>,
       <<110, 111, 118, 101, 110, 116, 97>> >>

\* static const char* hundreds_pt[]
hundreds_pt ==
    << <<>>,
       <<99, 101, 110, 116, 111>>,
       <<100, 117, 122, 101, 110, 116, 111, 115>>,
       <<116, 114, 101, 122, 101, 110, 116, 111, 115>>,
       <<113, 117, 97, 116, 114, 111, 99, 101, 110, 116, 111, 115>>,
       <<113, 117, 105, 110, 104, 101, 110, 116, 111, 115>>,
       <<115, 101, 105, 115, 99, 101, 110, 116, 111, 115>>,
       <<115, 101, 116, 101, 99, 101, 110, 116, 111, 115>>,
       <<111, 105, 116, 111, 99, 101, 110, 116, 111, 115>>,
       <<110, 111, 118, 101, 99, 101, 110, 116, 111, 115>> >>

\* " e "
Conj == <<32, 101, 32>>

\* static void number_to_words_pt(int n, char* buf, size_t buf_size), 0 <= n <= 999
number_to_words_pt(n) ==
    LET h == n \div 100
        t == (n % 100) \div 10
        u == n % 10
        low == IF n % 100 < 20 THEN units_pt[(n % 100) + 1]
               ELSE tens_pt[t + 1] \o (IF u > 0 THEN Conj \o units_pt[u + 1] ELSE <<>>)
    IN IF n = 0 THEN <<122, 101, 114, 111>>
       ELSE IF n = 100 THEN <<99, 101, 109>>
       ELSE (IF h > 0 THEN hundreds_pt[h + 1] ELSE <<>>)
            \o (IF n % 100 > 0 THEN (IF h > 0 THEN Conj ELSE <<>>) \o low ELSE <<>>)

\* The "Millions" block of full_number_to_words_pt, for 1000000 <= n.
MillionsWords(n) ==
    LET millions == n \div 1000000
    IN number_to_words_pt(millions)
       \o (IF millions = 1 THEN <<32, 109, 105, 108, 104, 195, 163, 111>> ELSE <<32, 109, 105, 108, 104, 195, 181, 101, 115>>)
       \o (IF n % 1000000 > 0 THEN Conj ELSE <<>>)

\* The "Thousands" block without the case of one thousand: "um mil".
ThousandsWords_unit(n) ==
    LET thousands == n \div 1000
        rest == n % 1000
    IN number_to_words_pt(thousands) \o <<32, 109, 105, 108>>
       \o (IF rest > 0 THEN (IF rest < 100 THEN Conj ELSE <<32>>) ELSE <<>>)

\* The "Thousands" block of full_number_to_words_pt, for 1000 <= n < 1000000.
ThousandsWords(n) ==
    LET thousands == n \div 1000
        rest == n % 1000
    IN (IF thousands = 1 THEN <<109, 105, 108>>
        ELSE number_to_words_pt(thousands) \o <<32, 109, 105, 108>>)
       \o (IF rest > 0 THEN (IF rest < 100 THEN Conj ELSE <<32>>) ELSE <<>>)

\* static void full_number_to_words_pt(long n, char* buf, size_t buf_size),
\* for the numbers the model parses: 0 <= n < 1000000000.
full_number_to_words_pt(n) ==
    LET n1 == n % 1000000
        n2 == n1 % 1000
    IN IF n = 0 THEN <<122, 101, 114, 111>>
       ELSE (IF n >= 1000000 THEN MillionsWords(n) ELSE <<>>)
            \o (IF n1 >= 1000 THEN ThousandsWords(n1) ELSE <<>>)
            \o (IF n2 > 0 THEN number_to_words_pt(n2) ELSE <<>>)

IsDigit(c) == c >= 48 /\ c <= 57

\* while (*src >= '0' && *src <= '9') { num = num * 10 + (*src - '0'); src++; }
\* <<num, src>> after the loop.
RECURSIVE ParseNumber(_, _, _)
ParseNumber(s, src, num) ==
    IF IsDigit(At(s, src)) THEN ParseNumber(s, src + 1, (num * 10) + (At(s, src) - 48))
    ELSE <<num, src>>

\* The copy loop of expand_numbers from src on.  The result buffer holds
\* strlen(text) * 20 + 1024 bytes, which the texts of the model never fill.
RECURSIVE ExpandFrom(_, _)
ExpandFrom(s, src) ==
    IF At(s, src) = 0 THEN <<>>
    ELSE IF IsDigit(At(s, src))
         THEN LET p == ParseNumber(s, src, 0)
              IN full_number_to_words_pt(p[1]) \o ExpandFrom(s, p[2])
    ELSE <<At(s, src)>> \o ExpandFrom(s, src + 1)

\* static char* expand_numbers(const char* text).  When its malloc fails the
\* function returns strdup(text): the text with its digits left in place.
expand_numbers(text, malloc_ok) ==
    IF malloc_ok THEN ExpandFrom(text, 1) ELSE text
----------------------------------------------------------------------------
(* Configuration, the sample buffer and the prosody passes *)

\* Durations are kept in hundredths of a millisecond, so that the factors the
\* code multiplies them by give whole numbers.
\* void ctts_config_defaults(CTTSConfig* config)
ctts_config_defaults ==
    [crossfade_ms |-> 2000,
     crossfade_vowel_ms |-> 4500,
     crossfade_s_ending_ms |-> 3000,
     crossfade_r_ending_ms |-> 3000,
     vowel_to_consonant_factor |-> 50,
     word_pause_ms |-> 12000,
     remove_word_silence |-> TRUE,
     min_silence_ms |-> 1500,
     unknown_silence_ms |-> 3000,
     fade_in_ms |-> 300,
     fade_out_ms |-> 300]

\* A configuration file that sets word_pause_ms and unknown_silence_ms to 20 s:
\* one pause is then longer than the buffer's initial capacity.
LongPauses ==
    [ctts_config_defaults EXCEPT !.word_pause_ms = 2000000,
                                 !.unknown_silence_ms = 2000000]

\* (size_t)(ms * CTTS_SAMPLE_RATE / 1000.0f), ms in hundredths of a millisecond
SamplesOf(ms) == (ms * 441) \div 2000

\* buffer_init(&buf, CTTS_SAMPLE_RATE * 10)
InitialCapacity == 220500

\* static float get_punctuation_pause_ms(char punct, const CTTSConfig* config)
get_punctuation_pause_ms(punct, config) ==
    IF punct = 44 THEN (config.word_pause_ms * 5) \div 10
    ELSE IF punct \in {59, 58} THEN (config.word_pause_ms * 7) \div 10
    ELSE IF punct \in {46, 63} THEN (config.word_pause_ms * 12) \div 10
    ELSE IF punct = 33 THEN (config.word_pause_ms * 13) \div 10
    ELSE IF punct = 45 THEN 0
    ELSE config.word_pause_ms

\* static int is_sentence_end(char c)
is_sentence_end(c) == c \in {46, 33, 63}

\* The buffer's samples, as runs: kind is "unit" (samples of unit src), "mix"
\* (a crossfade region), "pause" (word or punctuation silence) or "unknown"
\* (silence for an unmatched character); n is the run's length; q is the rise
\* (in hundredths) of the question envelope applied to the run, 0 if none; d
\* tells whether declination scaled it.
Run(kind, src, n) == [kind |-> kind, src |-> src, n |-> n, q |-> 0, d |-> FALSE]

RECURSIVE BufCount(_)
BufCount(data) ==
    IF data = <<>> THEN 0 ELSE Head(data).n + BufCount(Tail(data))

AppendRun(data, run) == IF run.n = 0 THEN data ELSE Append(data, run)

Front(data) == SubSeq(data, 1, Len(data) - 1)

\* The buffer with field f set to v on its last k samples.
RECURSIVE TailSet(_, _, _, _)
TailSet(data, k, f, v) ==
    IF k <= 0 \/ data = <<>> THEN data
    ELSE LET last == data[Len(data)]
         IN IF last.n <= k
            THEN Append(TailSet(Front(data), k - last.n, f, v), [last EXCEPT ![f] = v])
            ELSE Front(data) \o <<[last EXCEPT !.n = @ - k],
                                  [last EXCEPT !.n = k, ![f] = v]>>

\* buf.count = word_start_sample + new_word_len: the buffer cut to count samples.
RECURSIVE Truncate(_, _)
Truncate(data, count) ==
    IF data = <<>> \/ count <= 0 THEN <<>>
    ELSE IF Head(data).n <= count
         THEN <<Head(data)>> \o Truncate(Tail(data), count - Head(data).n)
         ELSE <<[Head(data) EXCEPT !.n = count]>>

\* The new capacity buffer_grow asks realloc for.
RECURSIVE GrowTo(_, _)
GrowTo(new_cap, wanted) ==
    IF new_cap < wanted THEN GrowTo(new_cap * 2, wanted) ELSE new_cap

\* static int buffer_grow(SampleBuffer* buf, size_t needed): whether it has to
\* call realloc, and the capacity after it succeeded.
NeedsGrow(capacity, count, needed) == count + needed > capacity

buffer_grow(capacity, count, needed) ==
    IF NeedsGrow(capacity, count, needed)
    THEN GrowTo(capacity * 2, count + needed)
    ELSE capacity

\* static void analyze_prosody(const char* text, ProsodyContext* ctx)
RECURSIVE CountWords(_, _, _)
CountWords(text, i, in_word) ==
    IF i > Len(text) THEN 0
    ELSE IF text[i] \in {32, 9, 10} THEN CountWords(text, i + 1, FALSE)
    ELSE (IF in_word THEN 0 ELSE 1) + CountWords(text, i + 1, TRUE)

RECURSIVE IsQuestion(_, _)
IsQuestion(text, i) ==
    IF i = 0 THEN FALSE
    ELSE IF text[i] = 63 THEN TRUE
    ELSE IF text[i] \in {32, 9, 10} THEN IsQuestion(text, i - 1)
    ELSE FALSE

analyze_prosody(text) ==
    [is_question |-> IsQuestion(text, Len(text)),
     word_count |-> CountWords(text, 1, FALSE)]

\* static void apply_declination(samples + word_start, count - word_start, ...)
apply_declination(data, word_start, word_index, total_words) ==
    IF BufCount(data) - word_start = 0 \/ total_words <= 1 THEN data
    ELSE TailSet(data, BufCount(data) - word_start, "d", TRUE)

\* static void apply_question_intonation(samples, count, word_start, word_index,
\*                                       total_words)
apply_question_intonation(data, word_start, word_index, total_words) ==
    LET count == BufCount(data)
    IN IF count = 0 \/ total_words = 0 THEN data
       ELSE IF word_index < total_words - 2 THEN data
       ELSE IF count - word_start < 100 THEN data
       ELSE TailSet(data, count - word_start, "q",
                    IF word_index = total_words - 1 THEN 15 ELSE 8)

\* The lengths remove_silence_regions may return for a word of word_samples
\* samples, which depends on the sample values: nothing removed, or one run of
\* min_silence_samples low samples cut down to keep = max(min / 4, 10) of them.
\* A word that is all silence (max_amp == 0) is returned as it is.
SilenceOutcomes(word, word_samples, min_silence_samples) ==
    LET keep == IF min_silence_samples \div 4 < 10 THEN 10 ELSE min_silence_samples \div 4
    IN {word_samples}
       \cup IF /\ \E k \in 1..Len(word) : word[k].kind \in {"unit", "mix"}
               /\ word_samples >= min_silence_samples
               /\ min_silence_samples > keep
            THEN {word_samples - min_silence_samples + keep}
            ELSE {}

\* The runs of the buffer from sample word_start on.
RECURSIVE RunsFrom(_, _)
RunsFrom(data, word_start) ==
    IF data = <<>> THEN <<>>
    ELSE IF Head(data).n <= word_start
         THEN RunsFrom(Tail(data), word_start - Head(data).n)
         ELSE data

\* The buffer without its first count samples.
RECURSIVE DropFront(_, _)
DropFront(data, count) ==
    IF data = <<>> THEN <<>>
    ELSE IF Head(data).n <= count
         THEN DropFront(Tail(data), count - Head(data).n)
         ELSE IF count <= 0 THEN data
              ELSE <<[Head(data) EXCEPT !.n = @ - count]>> \o Tail(data)

\* remove_silence_regions on a region whose units are louder than the threshold
\* throughout: each maximal stretch of zero samples (pause and unknown-character
\* silence, gathered in silent) of at least min_silence_samples is cut down to
\* its first keep samples, a shorter one is copied whole.
RECURSIVE CutSilentRuns(_, _, _, _)
CutSilentRuns(region, silent, min_silence_samples, keep) ==
    LET kept == IF BufCount(silent) >= min_silence_samples
                THEN Truncate(silent, keep) ELSE silent
    IN IF region = <<>> THEN kept
       ELSE IF Head(region).kind \in {"pause", "unknown"}
            THEN CutSilentRuns(Tail(region), Append(silent, Head(region)),
                               min_silence_samples, keep)
            ELSE kept \o <<Head(region)>>
                 \o CutSilentRuns(Tail(region), <<>>, min_silence_samples, keep)

\* "Remove silence within the completed word if configured": the buffers the
\* block may leave. Besides the outcomes that depend on the units' sample
\* values there is the one that does not: the zero samples of a pause inside the
\* region are silence whatever the threshold is.
RemoveWordSilence(data, word_start, config) ==
    LET count == BufCount(data)
        word_samples == count - word_start
        min_silence_samples == SamplesOf(config.min_silence_ms)
        keep == IF min_silence_samples \div 4 < 10 THEN 10
                ELSE min_silence_samples \div 4
        region == DropFront(data, word_start)
    IN IF config.remove_word_silence /\ count > word_start
          /\ word_samples > min_silence_samples
       THEN {Truncate(data, word_start + n) :
                n \in SilenceOutcomes(RunsFrom(data, word_start), word_samples,
                                      min_silence_samples)}
            \cup IF \E k \in 1..Len(region) : region[k].kind \in {"unit", "mix"}
                 THEN {Truncate(data, word_start)
                       \o CutSilentRuns(region, <<>>, min_silence_samples, keep)}
                 ELSE {}
       ELSE {data}

\* "Apply prosody effects to completed word"
WordProsody(data, word_start, word_index, prosody) ==
    IF BufCount(data) > word_start
    THEN LET declined == apply_declination(data, word_start, word_index,
                                           prosody.word_count)
         IN IF prosody.is_question
            THEN apply_question_intonation(declined, word_start, word_index,
                                           prosody.word_count)
            ELSE declined
    ELSE data
----------------------------------------------------------------------------
(* time_stretch: the size computation, in size_t (64 bits) *)

\* A size_t is four 16-bit limbs, least significant first.
SizeT(n) == <<n % 65536, n \div 65536, 0, 0>>

\* a + m, modulo 2^64, for 0 <= m < 2^15
SizeAdd(a, m) ==
    LET s1 == a[1] + m
        s2 == a[2] + (s1 \div 65536)
        s3 == a[3] + (s2 \div 65536)
        s4 == a[4] + (s3 \div 65536)
    IN <<s1 % 65536, s2 % 65536, s3 % 65536, s4 % 65536>>

\* a - m, modulo 2^64, for 0 <= m < 2^15: an unsigned subtraction wraps.
SizeSub(a, m) ==
    LET d1 == a[1] - m
        b1 == IF d1 < 0 THEN 1 ELSE 0
        d2 == a[2] - b1
        b2 == IF d2 < 0 THEN 1 ELSE 0
        d3 == a[3] - b2
        b3 == IF d3 < 0 THEN 1 ELSE 0
        d4 == a[4] - b3
    IN <<(d1 + 65536) % 65536, (d2 + 65536) % 65536,
         (d3 + 65536) % 65536, (d4 + 65536) % 65536>>

\* a * m, modulo 2^64, for 0 <= m < 2^15
SizeMul(a, m) ==
    LET p1 == a[1] * m
        p2 == (a[2] * m) + (p1 \div 65536)
        p3 == (a[3] * m) + (p2 \div 65536)
        p4 == (a[4] * m) + (p3 \div 65536)
    IN <<p1 % 65536, p2 % 65536, p3 % 65536, p4 % 65536>>

\* a / m, for 0 < m < 2^15
SizeDiv(a, m) ==
    LET t4 == a[4]
        t3 == ((t4 % m) * 65536) + a[3]
        t2 == ((t3 % m) * 65536) + a[2]
        t1 == ((t2 % m) * 65536) + a[1]
    IN <<t1 \div m, t2 \div m, t3 \div m, t4 \div m>>

\* The value of a size_t below 2^31.
SizeFits(a) == a[4] = 0 /\ a[3] = 0 /\ a[2] < 32768
SizeValue(a) == (a[2] * 65536) + a[1]

\* const size_t frame_size = 441
frame_size == 441
\* const size_t analysis_hop = frame_size / 4
analysis_hop == frame_size \div 4

\* CTTS_MIN_SPEED 0.5f and CTTS_MAX_SPEED 2.0f, in thousandths
CTTS_MIN_SPEED == 500
CTTS_MAX_SPEED == 2000

\* size_t synthesis_hop = (size_t)(analysis_hop / speed_factor), after the clamp
synthesis_hop(speed) ==
    LET speed_factor == IF speed < CTTS_MIN_SPEED THEN CTTS_MIN_SPEED
                        ELSE IF speed > CTTS_MAX_SPEED THEN CTTS_MAX_SPEED
                        ELSE speed
    IN (analysis_hop * 1000) \div speed_factor

\* size_t num_frames = (input_count - frame_size) / analysis_hop + 1;
\* *output_count = num_frames * synthesis_hop + frame_size;
StretchOutputCount(input_count, speed) ==
    LET num_frames == SizeAdd(SizeDiv(SizeSub(SizeT(input_count), frame_size),
                                      analysis_hop), 1)
    IN SizeAdd(SizeMul(num_frames, synthesis_hop(speed)), frame_size)

\* calloc(n, sizeof(int16_t)) cannot succeed when n * 2 bytes is 2^48 or more:
\* the product overflows size_t or exceeds any address space.
CallocImpossible(n) == n[4] > 0 \/ n[3] >= 32768

\* The sample counts time_stretch may report once its allocations succeeded.
\* An input shorter than a frame has no frame copied, so the output is all
\* zeros and is trimmed to nothing.  Otherwise the last synthesis_hop samples
\* are never written and are trimmed; how many more trailing zeros there are
\* depends on the sample values, down to an output that is all zeros.
StretchCounts(input_count, speed) ==
    LET output_count == StretchOutputCount(input_count, speed)
    IN IF input_count < frame_size \/ ~SizeFits(output_count) THEN {0}
       ELSE {0, SizeValue(output_count) - synthesis_hop(speed)}

----------------------------------------------------------------------------
(* Sample arithmetic *)

\* The quotient of a C division or of a float-to-integer conversion: rounded
\* towards zero.
TruncDiv(a, b) == IF a >= 0 THEN a \div b ELSE -((-a) \div b)

\* "if (x > 32767) x = 32767; if (x < -32768) x = -32768;"
Clamp16(x) == IF x > 32767 THEN 32767 ELSE IF x < -32768 THEN -32768 ELSE x

\* The conversion of an int to int16_t with no clamp before it: the value
\* modulo 2^16.
ToInt16(x) == ((x + 32768) % 65536) - 32768

\* hanning(i, frame_size) = 0.5 * (1 - cos(2 * PI * i / 441)) in thousandths, at
\* i = 0, 55, 110, ..., 440.
HanningTable == <<0, 146, 498, 852, 1000, 857, 505, 151, 0>>

hanning(i) == HanningTable[(i \div 55) + 1]

\* Input samples: the two extremes, silence, and a level a little over a third
\* of full scale.
SampleValues == {-32768, 0, 12000, 32767}
----------------------------------------------------------------------------
(* The state *)

\* The builder (ctts_build_database) and lookups in the database it wrote.
VARIABLES
    bpc,          \* ctts_build_database: position in the function
    raw_units,    \* the index lines of letters.txt ++ sillabes.txt, in file order
    all_units,    \* BuildUnit all_units[], after qsort
    bi,           \* the loop variable i of the insertion loop
    db,           \* the database image: header, index, hash table, string pool
    lookup        \* the last find_unit call: its query and its result

buildVars == <<bpc, raw_units, all_units, bi, db, lookup>>

\* One call of ctts_synthesize.
VARIABLES
    config,              \* engine->config
    text,                \* the text argument, as bytes
    speed,               \* the speed argument, in thousandths
    spc,                 \* position in ctts_synthesize: "call", "loop", "done"
    fold,                \* normalized: the folded text the loop walks
    pos,                 \* pos, as a 1-based index into fold
    buf,                 \* buf.data, as runs of samples
    capacity,            \* buf.capacity
    prev_was_word_boundary,
    prev_unit,           \* the unit prev_unit_text points into, -1 for NULL
    prev_end_phoneme,
    current_word_index,
    word_start_sample,
    units_found,         \* engine->units_found
    units_missing,       \* engine->units_missing
    prosody,             \* ProsodyContext: is_question, word_count
    err,                 \* the value ctts_synthesize returned
    sample_count,        \* *sample_count, -1 while the call has not written it
    failed,              \* the allocations that returned NULL for want of memory
    trace                \* one record per loop iteration so far

synthVars ==
    <<config, text, speed, spc, fold, pos, buf, capacity, prev_was_word_boundary,
      prev_unit, prev_end_phoneme, current_word_index, word_start_sample,
      units_found, units_missing, prosody, err, sample_count, failed, trace>>

\* One call of ctts_init.
VARIABLES
    ipc,          \* position in ctts_init
    db_file,      \* the file at database_file: whether it exists, its size, its header
    engine        \* the CTTS being set up, and what ctts_init returned

openVars == <<ipc, db_file, engine>>

\* Threads, each with an engine handle of its own, and the file-scope
\* normalization table they share.
VARIABLES
    tpc,                 \* per thread: position in ctts_synthesize or ctts_free
    ti,                  \* per thread: the loop variable i, or the rule slot being filled
    fline,               \* per thread: lines of normalization.csv read so far
    tcalls,              \* per thread: calls of ctts_synthesize made so far
    csv,                 \* normalization.csv: whether it exists, its rule lines
    norm_rules,          \* static NormRule norm_rules[]: regex state and compiled
    norm_rule_count,     \* static size_t norm_rule_count
    norm_rules_loaded    \* static int norm_rules_loaded

threadVars ==
    <<tpc, ti, fline, tcalls, csv, norm_rules, norm_rule_count, norm_rules_loaded>>

VARIABLES
    tsc,                 \* position in time_stretch or in the crossfade of
                         \* buffer_append_crossfade
    stretch_speed,       \* speed_factor, in thousandths
    synthesis_pos,       \* synthesis_pos of the frame to be added next
    out_sample,          \* the int16_t the stage writes: (*output)[frame_size - 1],
                         \* or buf->data[fade_start + i]
    norm_acc,            \* norm[frame_size - 1], in thousandths
    stored               \* the last store: the arithmetic result and the
                         \* int16_t that was written

stretchVars == <<tsc, stretch_speed, synthesis_pos, out_sample, norm_acc, stored>>

\* One digit run through expand_numbers.
VARIABLES
    npc,                 \* position in expand_numbers and full_number_to_words_pt
    digit_run,           \* the digit run at num_start
    digit_pos,           \* src - num_start
    long_num,            \* num, then n: a long, as limbs of three decimal digits
    overflowed,          \* whether num * 10 + digit left the range of long
    words_buf,           \* char words[256], up to its NUL
    table_reads          \* the indices read in units_pt, tens_pt and hundreds_pt

numberVars == <<npc, digit_run, digit_pos, long_num, overflowed, words_buf, table_reads>>

\* One call of remove_silence_regions.
VARIABLES
    rpc,                 \* position in remove_silence_regions
    region_samples,      \* samples[0 .. ], the region and what follows it
    region_orig,         \* the region as it was at the call
    region_count,        \* count
    abs_threshold,
    silence_min,         \* min_silence_samples
    write_pos,
    read_pos,
    new_word_len         \* the count that remove_silence_regions returned

silenceVars ==
    <<rpc, region_samples, region_orig, region_count, abs_threshold, silence_min,
      write_pos, read_pos, new_word_len>>

----------------------------------------------------------------------------
(* ctts_synthesize as a process: one action per branch of the segmentation loop *)

CTTS_OK == 0
CTTS_ERR_OUT_OF_MEMORY == -6

MaxTextLen == 3
MaxAllocFailures == 1

\* The bytes of the bounded texts: a c h, space, hyphen, question mark.
Alphabet == {97, 99, 104, 32, 45, 63}

\* Further texts: "abc?", "1", "(a)", "ç", "A,a", "a\ra", "a-c?", "a, a", "aç", "aça", "%", and
\* three that are not UTF-8: a lead byte cut short, a stray continuation byte,
\* a three-byte lead followed by ASCII.
SeedTexts ==
    { <<97, 98, 99, 63>>, <<49>>, <<40, 97, 41>>, <<195, 167>>, <<65, 44, 97>>,
      <<97, 13, 97>>, <<97, 45, 99, 63>>, <<97, 44, 32, 97>>,
      <<97, 195>>, <<167, 97>>, <<226, 97>>, <<97, 195, 167>>,
      <<97, 195, 167, 97>>, <<37>> }

Texts == SeqsUpTo(Alphabet, MaxTextLen) \cup SeedTexts

\* Speeds 0.5, 0.995, 1.0 and 2.0.
Speeds == {500, 995, 1000, 2000}

Configs == {ctts_config_defaults, LongPauses}

\* The index lines of the stores.  The second store has no "ch" and its "a" is
\* a WAV with an empty data chunk; the third holds a unit recorded for "a c",
\* a text with a space in it, and units for "ç", "aç" and "%".
StoreLines ==
    { <<>>,
      << [text |-> <<97>>, sample_count |-> 1000],
         [text |-> <<99>>, sample_count |-> 40],
         [text |-> <<104>>, sample_count |-> 30],
         [text |-> <<99, 104>>, sample_count |-> 60],
         [text |-> <<99, 97>>, sample_count |-> 120] >>,
      << [text |-> <<97>>, sample_count |-> 0],
         [text |-> <<99>>, sample_count |-> 40],
         [text |-> <<104>>, sample_count |-> 30] >>,
      << [text |-> <<97>>, sample_count |-> 1000],
         [text |-> <<97, 32, 99>>, sample_count |-> 1500],
         [text |-> <<195, 167>>, sample_count |-> 400],
         [text |-> <<97, 195, 167>>, sample_count |-> 1200],
         [text |-> <<37>>, sample_count |-> 200] >> }

\* The units of a store as the builder loads and sorts them (the texts of a
\* store differ, so there is one order).
Stores ==
    {CHOOSE us \in QsortResults([i \in 1..Len(lines) |-> LoadUnit(lines[i])]) : TRUE :
        lines \in StoreLines}

NoEvent ==
    [kind |-> "none", pos |-> 0, advance |-> 0, aws |-> FALSE, idx |-> -1,
     char_count |-> 0, branch |-> "none", k |-> 0, unit_count |-> 0,
     before |-> 0, trimmed |-> 0, after |-> 0, flag |-> FALSE,
     crossfade_ms |-> 0, prev |-> -1]

\* An allocation may still be made to fail.
MayFail == Cardinality(failed) < MaxAllocFailures

\* static int buffer_append_crossfade(buf, samples, count, crossfade_ms, config,
\*                                    after_word_boundary), its allocations granted:
\* the runs, the branch taken and the length k of the crossfade region.
buffer_append_crossfade(data, src, count, crossfade_ms, after_word_boundary) ==
    LET crossfade_samples == SamplesOf(crossfade_ms)
        actual_crossfade == Min(crossfade_samples, Min(BufCount(data), count))
    IN IF count = 0 THEN [data |-> data, branch |-> "empty", k |-> 0]
       ELSE IF BufCount(data) = 0 \/ after_word_boundary
            THEN [data |-> Append(data, Run("unit", src, count)),
                  branch |-> "fade_in", k |-> 0]
       ELSE IF crossfade_samples = 0
            THEN [data |-> Append(data, Run("unit", src, count)),
                  branch |-> "plain", k |-> 0]
       ELSE [data |-> AppendRun(TailSet(data, actual_crossfade, "kind", "mix"),
                                Run("unit", src, count - actual_crossfade)),
             branch |-> "crossfade", k |-> actual_crossfade]

\* "Choose crossfade duration using adaptive phoneme-based approach"
CrossfadeMs(curr_start_phoneme) ==
    IF ~prev_was_word_boundary /\ prev_unit # -1
    THEN LET adaptive == get_adaptive_crossfade(prev_end_phoneme, curr_start_phoneme,
                                                config)
             prev_text == UnitText(db, prev_unit)
         IN IF ends_with_s(prev_text) /\ adaptive > config.crossfade_s_ending_ms
            THEN config.crossfade_s_ending_ms
            ELSE IF ends_with_r(prev_text) /\ adaptive > config.crossfade_r_ending_ms
            THEN config.crossfade_r_ending_ms
            ELSE adaptive
    ELSE config.crossfade_ms

\* return CTTS_ERR_OUT_OF_MEMORY, because allocation site failed.
ReturnOutOfMemory(site) ==
    /\ failed' = failed \cup {site}
    /\ err' = CTTS_ERR_OUT_OF_MEMORY
    /\ spc' = "done"
    /\ UNCHANGED <<config, text, speed, fold, pos, buf, capacity,
                   prev_was_word_boundary, prev_unit, prev_end_phoneme,
                   current_word_index, word_start_sample, units_found,
                   units_missing, prosody, sample_count, trace>>

\* The sets of allocations that may fail before the loop starts.  The malloc
\* of expand_numbers has a fallback; each of the others ends the call, so at
\* most one of them is reached and fails.
PrepareFatal == {"expand_strdup", "rules_strdup", "normalize", "buffer_init"}

PrepareFailures ==
    {F \in SUBSET ({"expand_numbers"} \cup PrepareFatal) :
        /\ Cardinality(F) <= MaxAllocFailures
        /\ Cardinality(F \cap PrepareFatal) <= 1
        /\ "expand_strdup" \in F => "expand_numbers" \in F}

\* Lines 2543-2592: prosody analysis, the three text passes, buffer_init and
\* the locals of the loop.  No normalization.csv is present, so the rule pass
\* (norm_rule_count == 0) returns a copy of its input.
SynthPrepare ==
    /\ spc = "call"
    /\ \E F \in PrepareFailures :
          LET numbers_expanded == expand_numbers(text, "expand_numbers" \notin F)
              rule_normalized == numbers_expanded
          IN /\ failed' = F
             /\ IF F \cap PrepareFatal # {}
                THEN /\ err' = CTTS_ERR_OUT_OF_MEMORY
                     /\ spc' = "done"
                     /\ UNCHANGED <<fold, units_found, units_missing>>
                ELSE /\ fold' = ctts_normalize(rule_normalized)
                     /\ units_found' = 0
                     /\ units_missing' = 0
                     /\ spc' = "loop"
                     /\ err' = err
    /\ prosody' = analyze_prosody(text)
    /\ pos' = 1
    /\ buf' = <<>>
    /\ capacity' = InitialCapacity
    /\ prev_unit' = -1
    /\ prev_was_word_boundary' = TRUE
    /\ prev_end_phoneme' = "OTHER"
    /\ current_word_index' = 0
    /\ word_start_sample' = 0
    /\ UNCHANGED <<config, text, speed, sample_count, trace>>
    /\ UNCHANGED <<buildVars, openVars, threadVars, stretchVars, numberVars, silenceVars>>

InLoop == spc = "loop" /\ At(fold, pos) # 0

\* buffer_append_silence(&buf, samples) with its return value dropped: the
\* runs and the capacity it leaves when buffer_grow answers ok.
AppendSilence(data, kind, samples, ok) ==
    IF ok
    THEN [data |-> AppendRun(data, Run(kind, -1, samples)),
          capacity |-> buffer_grow(capacity, BufCount(data), samples)]
    ELSE [data |-> data, capacity |-> capacity]

\* Lines 2596-2643: whitespace ends the word.
SynthWhitespace ==
    /\ InLoop
    /\ At(fold, pos) \in {32, 9, 10, 13}
    /\ \E trimmed \in RemoveWordSilence(buf, word_start_sample, config) :
          LET word == WordProsody(trimmed, word_start_sample, current_word_index,
                                  prosody)
              word_pause_samples == SamplesOf(config.word_pause_ms)
          IN \E ok \in {TRUE} \cup
                       IF NeedsGrow(capacity, BufCount(word), word_pause_samples)
                          /\ MayFail
                       THEN {FALSE} ELSE {} :
                LET r == AppendSilence(word, "pause", word_pause_samples, ok)
                IN /\ buf' = r.data
                   /\ capacity' = r.capacity
                   /\ failed' = IF ok THEN failed ELSE failed \cup {"word_pause"}
                   /\ word_start_sample' = BufCount(r.data)
                   /\ trace' = Append(trace,
                         [NoEvent EXCEPT !.kind = "space", !.pos = pos, !.advance = 1,
                                         !.before = BufCount(buf),
                                         !.trimmed = BufCount(trimmed),
                                         !.after = BufCount(r.data), !.flag = TRUE])
    /\ current_word_index' = current_word_index + 1
    /\ pos' = pos + 1
    /\ prev_was_word_boundary' = TRUE
    /\ prev_unit' = -1
    /\ prev_end_phoneme' = "OTHER"
    /\ UNCHANGED <<config, text, speed, spc, fold, units_found, units_missing,
                   prosody, err, sample_count>>
    /\ UNCHANGED <<buildVars, openVars, threadVars, stretchVars, numberVars, silenceVars>>

\* The hyphen handled as a hard separator: it ends the crossfade state the way
\* whitespace does.
SynthHyphen_boundary ==
    /\ InLoop
    /\ At(fold, pos) = 45
    /\ pos' = pos + 1
    /\ prev_was_word_boundary' = TRUE
    /\ prev_unit' = -1
    /\ prev_end_phoneme' = "OTHER"
    /\ trace' = Append(trace,
          [NoEvent EXCEPT !.kind = "hyphen", !.pos = pos, !.advance = 1,
                          !.before = BufCount(buf), !.after = BufCount(buf),
                          !.flag = TRUE])
    /\ UNCHANGED <<config, text, speed, spc, fold, buf, capacity,
                   current_word_index, word_start_sample, units_found,
                   units_missing, prosody, err, sample_count, failed>>
    /\ UNCHANGED <<buildVars, openVars, threadVars, stretchVars, numberVars, silenceVars>>

\* Lines 2647-2652: the soft separator.
SynthHyphen ==
    /\ InLoop
    /\ At(fold, pos) = 45
    /\ pos' = pos + 1
    /\ trace' = Append(trace,
          [NoEvent EXCEPT !.kind = "hyphen", !.pos = pos, !.advance = 1,
                          !.before = BufCount(buf), !.after = BufCount(buf),
                          !.flag = prev_was_word_boundary])
    /\ UNCHANGED <<config, text, speed, spc, fold, buf, capacity,
                   prev_was_word_boundary, prev_unit, prev_end_phoneme,
                   current_word_index, word_start_sample, units_found,
                   units_missing, prosody, err, sample_count, failed>>
    /\ UNCHANGED <<buildVars, openVars, threadVars, stretchVars, numberVars, silenceVars>>

\* Lines 2655-2682: punctuation with its pause.
SynthPunctuation ==
    /\ InLoop
    /\ At(fold, pos) \in {44, 59, 58, 46, 33, 63}
    /\ LET pause_samples == SamplesOf(get_punctuation_pause_ms(At(fold, pos), config))
       IN \E ok \in {TRUE} \cup
                    IF pause_samples > 0
                       /\ NeedsGrow(capacity, BufCount(buf), pause_samples) /\ MayFail
                    THEN {FALSE} ELSE {} :
             LET r == IF pause_samples > 0
                      THEN AppendSilence(buf, "pause", pause_samples, ok)
                      ELSE [data |-> buf, capacity |-> capacity]
             IN /\ buf' = r.data
                /\ capacity' = r.capacity
                /\ failed' = IF ok THEN failed ELSE failed \cup {"punctuation_pause"}
                /\ IF is_sentence_end(At(fold, pos))
                   THEN /\ current_word_index' = 0
                        /\ word_start_sample' = BufCount(r.data)
                   ELSE UNCHANGED <<current_word_index, word_start_sample>>
                /\ trace' = Append(trace,
                      [NoEvent EXCEPT !.kind = "punct", !.pos = pos, !.advance = 1,
                                      !.before = BufCount(buf),
                                      !.after = BufCount(r.data), !.flag = TRUE])
    /\ pos' = pos + 1
    /\ prev_was_word_boundary' = TRUE
    /\ UNCHANGED <<config, text, speed, spc, fold, prev_unit, prev_end_phoneme,
                   units_found, units_missing, prosody, err, sample_count>>
    /\ UNCHANGED <<buildVars, openVars, threadVars, stretchVars, numberVars, silenceVars>>

\* The skip branch clearing the word-boundary flag.
SynthSkip_clears ==
    /\ InLoop
    /\ At(fold, pos) \in {40, 41, 91, 93, 34, 39, 96}
    /\ pos' = pos + 1
    /\ prev_was_word_boundary' = FALSE
    /\ trace' = Append(trace,
          [NoEvent EXCEPT !.kind = "skip", !.pos = pos, !.advance = 1,
                          !.before = BufCount(buf), !.after = BufCount(buf),
                          !.flag = FALSE])
    /\ UNCHANGED <<config, text, speed, spc, fold, buf, capacity,
                   prev_unit, prev_end_phoneme,
                   current_word_index, word_start_sample, units_found,
                   units_missing, prosody, err, sample_count, failed>>
    /\ UNCHANGED <<buildVars, openVars, threadVars, stretchVars, numberVars, silenceVars>>

\* The skip branch counting the character as a missing unit.
SynthSkip_counted ==
    /\ InLoop
    /\ At(fold, pos) \in {40, 41, 91, 93, 34, 39, 96}
    /\ pos' = pos + 1
    /\ units_missing' = units_missing + 1
    /\ trace' = Append(trace,
          [NoEvent EXCEPT !.kind = "skip", !.pos = pos, !.advance = 1,
                          !.before = BufCount(buf), !.after = BufCount(buf),
                          !.flag = prev_was_word_boundary])
    /\ UNCHANGED <<config, text, speed, spc, fold, buf, capacity,
                   prev_was_word_boundary, prev_unit, prev_end_phoneme,
                   current_word_index, word_start_sample, units_found,
                   prosody, err, sample_count, failed>>
    /\ UNCHANGED <<buildVars, openVars, threadVars, stretchVars, numberVars, silenceVars>>

\* Lines 2685-2689: brackets and quotes are skipped.
SynthSkip ==
    /\ InLoop
    /\ At(fold, pos) \in {40, 41, 91, 93, 34, 39, 96}
    /\ pos' = pos + 1
    /\ trace' = Append(trace,
          [NoEvent EXCEPT !.kind = "skip", !.pos = pos, !.advance = 1,
                          !.before = BufCount(buf), !.after = BufCount(buf),
                          !.flag = prev_was_word_boundary])
    /\ UNCHANGED <<config, text, speed, spc, fold, buf, capacity,
                   prev_was_word_boundary, prev_unit, prev_end_phoneme,
                   current_word_index, word_start_sample, units_found,
                   units_missing, prosody, err, sample_count, failed>>
    /\ UNCHANGED <<buildVars, openVars, threadVars, stretchVars, numberVars, silenceVars>>

\* The characters the loop handles before it calls the selector.
IsUnitChar(c) ==
    c \notin {0, 32, 9, 10, 13, 45, 44, 59, 58, 46, 33, 63, 40, 41, 91, 93, 34, 39, 96}

\* Lines 2691-2772: the selector returned a unit.
SynthMatch ==
    /\ InLoop
    /\ IsUnitChar(At(fold, pos))
    /\ \E m \in {find_best_match_with_lookahead(db, fold, pos, db.max_unit_chars,
                                                prev_was_word_boundary)} :
       LET unit_text == UnitText(db, m.idx)
           unit_samples == db.index[m.idx + 1].sample_count
           crossfade_ms == CrossfadeMs(classify_first_phoneme(unit_text))
           r == buffer_append_crossfade(buf, m.idx, unit_samples, crossfade_ms,
                                        prev_was_word_boundary)
           needed == unit_samples + SamplesOf(crossfade_ms)
       IN /\ m.len > 0 /\ m.idx >= 0
          /\ \E site \in {"none"} \cup
                 (IF MayFail THEN {"unit_copy"} ELSE {}) \cup
                 (IF MayFail /\ unit_samples > 0 THEN {"crossfade_copy"} ELSE {}) \cup
                 (IF MayFail /\ unit_samples > 0
                     /\ NeedsGrow(capacity, BufCount(buf), needed)
                  THEN {"crossfade_grow"} ELSE {}) :
                IF site # "none" THEN ReturnOutOfMemory(site)
                ELSE /\ buf' = r.data
                     /\ capacity' = IF unit_samples > 0
                                    THEN buffer_grow(capacity, BufCount(buf), needed)
                                    ELSE capacity
                     /\ prev_unit' = m.idx
                     /\ prev_end_phoneme' = classify_last_phoneme(unit_text)
                     /\ prev_was_word_boundary' = FALSE
                     /\ pos' = pos + m.len
                     /\ units_found' = units_found + 1
                     /\ trace' = Append(trace,
                           [kind |-> "match", pos |-> pos, advance |-> m.len,
                            aws |-> prev_was_word_boundary, idx |-> m.idx,
                            char_count |-> m.char_count, branch |-> r.branch,
                            k |-> r.k, unit_count |-> unit_samples,
                            before |-> BufCount(buf), trimmed |-> BufCount(buf),
                            after |-> BufCount(r.data),
                            flag |-> FALSE, crossfade_ms |-> crossfade_ms,
                            prev |-> prev_unit])
                     /\ UNCHANGED <<config, text, speed, spc, fold,
                                    current_word_index, word_start_sample,
                                    units_missing, prosody, err, sample_count, failed>>
    /\ UNCHANGED <<buildVars, openVars, threadVars, stretchVars, numberVars, silenceVars>>

\* Lines 2773-2781: no unit; silence for the character.
SynthNoMatch ==
    /\ InLoop
    /\ IsUnitChar(At(fold, pos))
    /\ \E m \in {find_best_match_with_lookahead(db, fold, pos, db.max_unit_chars,
                                                prev_was_word_boundary)} :
       LET unknown_silence == SamplesOf(config.unknown_silence_ms)
       IN /\ ~(m.len > 0 /\ m.idx >= 0)
          /\ \E ok \in {TRUE} \cup
                       IF NeedsGrow(capacity, BufCount(buf), unknown_silence) /\ MayFail
                       THEN {FALSE} ELSE {} :
                LET r == AppendSilence(buf, "unknown", unknown_silence, ok)
                IN /\ buf' = r.data
                   /\ capacity' = r.capacity
                   /\ failed' = IF ok THEN failed ELSE failed \cup {"unknown_silence"}
                   /\ trace' = Append(trace,
                         [NoEvent EXCEPT !.kind = "nomatch", !.pos = pos,
                                         !.advance = utf8_char_len(fold, pos),
                                         !.aws = prev_was_word_boundary,
                                         !.before = BufCount(buf),
                                         !.after = BufCount(r.data),
                                         !.flag = prev_was_word_boundary])
    /\ pos' = pos + utf8_char_len(fold, pos)
    /\ units_missing' = units_missing + 1
    /\ prev_unit' = -1
    /\ prev_end_phoneme' = "OTHER"
    /\ UNCHANGED <<config, text, speed, spc, fold, prev_was_word_boundary,
                   current_word_index, word_start_sample, units_found, prosody,
                   err, sample_count>>
    /\ UNCHANGED <<buildVars, openVars, threadVars, stretchVars, numberVars, silenceVars>>

\* The allocations of time_stretch that may fail: its output of output_count
\* samples, the window, and the normalisation accumulator.
StretchFailures(output_count) ==
    IF CallocImpossible(output_count) THEN {"impossible"}
    ELSE {"none"} \cup
         (IF ~SizeFits(output_count) THEN {"stretch_output"} ELSE {}) \cup
         (IF MayFail THEN {"stretch_output", "stretch_window", "stretch_norm"} ELSE {})

\* The final pass without the test for speed 1.0: time_stretch runs always.
SynthFinish_nobypass ==
    /\ spc = "loop"
    /\ At(fold, pos) = 0
    /\ \E trimmed \in RemoveWordSilence(buf, word_start_sample, config) :
          LET final == WordProsody(trimmed, word_start_sample, current_word_index,
                                   prosody)
          IN /\ buf' = final
             /\ IF TRUE
                THEN \E site \in StretchFailures(StretchOutputCount(BufCount(final), speed)) :
                        IF site = "none"
                        THEN /\ sample_count' \in StretchCounts(BufCount(final), speed)
                             /\ err' = CTTS_OK
                             /\ failed' = failed
                        ELSE /\ sample_count' = sample_count
                             /\ err' = CTTS_ERR_OUT_OF_MEMORY
                             /\ failed' = IF site = "impossible" THEN failed
                                          ELSE failed \cup {site}
                ELSE /\ sample_count' = BufCount(final)
                     /\ err' = CTTS_OK
                     /\ failed' = failed
    /\ spc' = "done"
    /\ UNCHANGED <<config, text, speed, fold, pos, capacity, prev_was_word_boundary,
                   prev_unit, prev_end_phoneme, current_word_index,
                   word_start_sample, units_found, units_missing, prosody, trace>>
    /\ UNCHANGED <<buildVars, openVars, threadVars, stretchVars, numberVars, silenceVars>>

\* Lines 2788-2840: the last word, the final fade-out, the time stretch, return.
SynthFinish ==
    /\ spc = "loop"
    /\ At(fold, pos) = 0
    /\ \E trimmed \in RemoveWordSilence(buf, word_start_sample, config) :
          LET final == WordProsody(trimmed, word_start_sample, current_word_index,
                                   prosody)
          IN /\ buf' = final
             /\ IF speed # 1000
                THEN \E site \in StretchFailures(StretchOutputCount(BufCount(final), speed)) :
                        IF site = "none"
                        THEN /\ sample_count' \in StretchCounts(BufCount(final), speed)
                             /\ err' = CTTS_OK
                             /\ failed' = failed
                        ELSE /\ sample_count' = sample_count
                             /\ err' = CTTS_ERR_OUT_OF_MEMORY
                             /\ failed' = IF site = "impossible" THEN failed
                                          ELSE failed \cup {site}
                ELSE /\ sample_count' = BufCount(final)
                     /\ err' = CTTS_OK
                     /\ failed' = failed
    /\ spc' = "done"
    /\ UNCHANGED <<config, text, speed, fold, pos, capacity, prev_was_word_boundary,
                   prev_unit, prev_end_phoneme, current_word_index,
                   word_start_sample, units_found, units_missing, prosody, trace>>
    /\ UNCHANGED <<buildVars, openVars, threadVars, stretchVars, numberVars, silenceVars>>

NoCall == -1
----------------------------------------------------------------------------
(* ctts_init: opening a database file *)

\* CTTS_MAGIC 0x53545443 ("CTTS"); 1129600083 below is 0x43545453 ("STTC")
CTTS_MAGIC == 1398035523
CTTS_VERSION == 1

\* sizeof(CTTSHeader), sizeof(CTTSIndexEntry)
HeaderSize == 64
IndexEntrySize == 32

\* The byte offset of each uint32_t field of CTTSHeader.
FieldOffset ==
    [magic |-> 0, version |-> 4, unit_count |-> 8, index_offset |-> 20,
     strings_offset |-> 24, audio_offset |-> 28, total_samples |-> 32,
     max_unit_chars |-> 36, hash_table_size |-> 40, hash_table_offset |-> 44]

\* "Calculate offsets" and "Write header" of ctts_build_database.
HeaderFor(us) ==
    LET total_count == Len(us)
        hash_table_size == HashTableSize(1, total_count)
        index_offset == HeaderSize
        hash_table_offset == index_offset + (total_count * IndexEntrySize)
        strings_offset == hash_table_offset + (hash_table_size * 4)
        audio_offset == strings_offset + Len(StringPool(us, 1))
    IN [magic |-> CTTS_MAGIC,
        version |-> CTTS_VERSION,
        unit_count |-> total_count,
        index_offset |-> index_offset,
        strings_offset |-> strings_offset,
        audio_offset |-> audio_offset,
        total_samples |-> SumSamples(us, 1),
        max_unit_chars |-> MaxChars(us, 1),
        hash_table_size |-> hash_table_size,
        hash_table_offset |-> hash_table_offset]

\* The size of the file the builder writes for header h.
ImageSize(h) == h.audio_offset + (h.total_samples * 2)

\* The sizes a copy of the file is cut to: nothing, inside the header, the
\* header alone, the end of each section, the last sample missing, complete.
Cuts(h) ==
    {0, 4, 8, 32, HeaderSize, h.hash_table_offset, h.strings_offset,
     h.audio_offset, ImageSize(h)}
        \cup (IF h.total_samples > 0 THEN {ImageSize(h) - 2} ELSE {})

NoFile == [exists |-> FALSE, size |-> 0, header |-> HeaderFor(<<>>)]

\* The files ctts_init is given: none, or a database the builder wrote, whole
\* or cut short, with its magic or version possibly overwritten.
DbFiles ==
    {NoFile} \cup
    {[exists |-> TRUE, size |-> size,
      header |-> [HeaderFor(us) EXCEPT !.magic = magic, !.version = version]] :
        us \in Stores, magic \in {CTTS_MAGIC, 1129600083},
        version \in {CTTS_VERSION, CTTS_VERSION + 1},
        size \in UNION {Cuts(HeaderFor(s)) : s \in Stores}}

\* memcpy(&engine->header, engine->db_data, sizeof(CTTSHeader)): the mapping
\* is whole pages, and the bytes of the last page past the end of the file
\* read as zero.
ReadHeader(file) ==
    [f \in DOMAIN FieldOffset |->
        IF FieldOffset[f] + 4 <= file.size THEN file.header[f] ELSE 0]

\* calloc(1, sizeof(CTTS)), with what ctts_init returned: "none" while it runs.
NewEngine ==
    [ret |-> "none", db_fd |-> 0, db_size |-> 0, mapped |-> FALSE,
     header |-> ReadHeader(NoFile),
     index |-> 0, hash_table |-> 0, strings |-> 0, audio |-> 0]

OpenIdle ==
    /\ ipc = "idle"
    /\ db_file = NoFile
    /\ engine = NewEngine

\* return NULL, after free(engine)
ReturnNull ==
    /\ engine' = [NewEngine EXCEPT !.ret = "NULL"]
    /\ ipc' = "done"

\* CTTS* engine = calloc(1, sizeof(CTTS)); if (!engine) return NULL;
InitCalloc ==
    /\ ipc = "call"
    /\ \E ok \in BOOLEAN :
          IF ok THEN engine' = NewEngine /\ ipc' = "open" ELSE ReturnNull
    /\ UNCHANGED db_file
    /\ UNCHANGED <<buildVars, synthVars, threadVars, stretchVars, numberVars, silenceVars>>

\* engine->db_fd = open(database_file, O_RDONLY);
InitOpenFile ==
    /\ ipc = "open"
    /\ IF db_file.exists
       THEN engine' = [engine EXCEPT !.db_fd = 3] /\ ipc' = "fstat"
       ELSE ReturnNull
    /\ UNCHANGED db_file
    /\ UNCHANGED <<buildVars, synthVars, threadVars, stretchVars, numberVars, silenceVars>>

\* fstat(engine->db_fd, &st); engine->db_size = st.st_size;
InitFstat ==
    /\ ipc = "fstat"
    /\ \E ok \in BOOLEAN :
          IF ok
          THEN engine' = [engine EXCEPT !.db_size = db_file.size] /\ ipc' = "mmap"
          ELSE ReturnNull
    /\ UNCHANGED db_file
    /\ UNCHANGED <<buildVars, synthVars, threadVars, stretchVars, numberVars, silenceVars>>

\* engine->db_data = mmap(NULL, engine->db_size, PROT_READ, MAP_PRIVATE, fd, 0):
\* a length of 0 is EINVAL, and the call may fail for want of memory.
InitMmap ==
    /\ ipc = "mmap"
    /\ \E ok \in (IF engine.db_size = 0 THEN {FALSE} ELSE BOOLEAN) :
          IF ok
          THEN engine' = [engine EXCEPT !.mapped = TRUE] /\ ipc' = "header"
          ELSE ReturnNull
    /\ UNCHANGED db_file
    /\ UNCHANGED <<buildVars, synthVars, threadVars, stretchVars, numberVars, silenceVars>>

\* "Parse header", "Set up pointers", ctts_config_defaults, return engine.
InitParseHeader ==
    /\ ipc = "header"
    /\ \E header \in {ReadHeader(db_file)} :
          IF header.magic # CTTS_MAGIC \/ header.version # CTTS_VERSION
          THEN ReturnNull
          ELSE /\ engine' = [engine EXCEPT !.header = header,
                                           !.index = header.index_offset,
                                           !.hash_table = header.hash_table_offset,
                                           !.strings = header.strings_offset,
                                           !.audio = header.audio_offset,
                                           !.ret = "engine"]
               /\ ipc' = "done"
    /\ UNCHANGED db_file
    /\ UNCHANGED <<buildVars, synthVars, threadVars, stretchVars, numberVars, silenceVars>>

----------------------------------------------------------------------------
(* Threads with a handle each, and the shared normalization table *)

Threads == {1, 2}

MaxRules == 2
MaxCalls == 1

\* #define MAX_NORM_RULES 256
MAX_NORM_RULES == 256

\* The slots of norm_rules the bounded runs can fill: each thread adds at most
\* MaxRules rules after a reset of norm_rule_count.
Slots == 0..((2 * MaxRules) - 1)

\* A slot of the zero-initialised static array.
NoRule == [regex |-> "none", compiled |-> 0]

ThreadsIdle ==
    /\ tpc = [t \in Threads |-> "stopped"]
    /\ ti = [t \in Threads |-> 0]
    /\ fline = [t \in Threads |-> 0]
    /\ tcalls = [t \in Threads |-> 0]
    /\ csv = [present |-> FALSE, lines |-> 0]
    /\ norm_rules = [s \in Slots |-> NoRule]
    /\ norm_rule_count = 0
    /\ norm_rules_loaded = 0

\* The thread calls ctts_synthesize on its handle; up to the call of
\* ctts_load_normalization only the arguments and the heap are touched.
ThreadSynthesize(t) ==
    /\ tpc[t] = "idle"
    /\ tcalls[t] < MaxCalls
    /\ tcalls' = [tcalls EXCEPT ![t] = @ + 1]
    /\ tpc' = [tpc EXCEPT ![t] = "load_check"]
    /\ UNCHANGED <<ti, fline, csv, norm_rules, norm_rule_count, norm_rules_loaded>>
    /\ UNCHANGED <<buildVars, synthVars, openVars, stretchVars, numberVars, silenceVars>>

\* ctts_load_normalization: if (norm_rules_loaded) return CTTS_OK;
LoadCheck(t) ==
    /\ tpc[t] = "load_check"
    /\ tpc' = [tpc EXCEPT ![t] = IF norm_rules_loaded # 0 THEN "apply_check"
                                 ELSE "load_open"]
    /\ UNCHANGED <<ti, fline, tcalls, csv, norm_rules, norm_rule_count,
                   norm_rules_loaded>>
    /\ UNCHANGED <<buildVars, synthVars, openVars, stretchVars, numberVars, silenceVars>>

\* fopen(csv_file, "r"): absent, norm_rules_loaded = 1 and return; present,
\* norm_rule_count = 0.
LoadOpen(t) ==
    /\ tpc[t] = "load_open"
    /\ IF csv.present
       THEN /\ norm_rule_count' = 0
            /\ tpc' = [tpc EXCEPT ![t] = "load_line"]
            /\ UNCHANGED norm_rules_loaded
       ELSE /\ norm_rules_loaded' = 1
            /\ tpc' = [tpc EXCEPT ![t] = "apply_check"]
            /\ UNCHANGED norm_rule_count
    /\ fline' = [fline EXCEPT ![t] = 0]
    /\ UNCHANGED <<ti, tcalls, csv, norm_rules>>
    /\ UNCHANGED <<buildVars, synthVars, openVars, stretchVars, numberVars, silenceVars>>

\* while (fgets(line, sizeof(line), f) && norm_rule_count < MAX_NORM_RULES):
\* a line was read; rule = &norm_rules[norm_rule_count].
LoadLine(t) ==
    /\ tpc[t] = "load_line"
    /\ fline[t] < csv.lines
    /\ norm_rule_count < MAX_NORM_RULES
    /\ fline' = [fline EXCEPT ![t] = @ + 1]
    /\ ti' = [ti EXCEPT ![t] = norm_rule_count]
    /\ tpc' = [tpc EXCEPT ![t] = "load_regcomp"]
    /\ UNCHANGED <<tcalls, csv, norm_rules, norm_rule_count, norm_rules_loaded>>
    /\ UNCHANGED <<buildVars, synthVars, openVars, stretchVars, numberVars, silenceVars>>

\* regcomp(&rule->regex, ...); strncpy(rule->replace, ...); rule->compiled = 1;
LoadRegcomp(t) ==
    /\ tpc[t] = "load_regcomp"
    /\ norm_rules' = [norm_rules EXCEPT ![ti[t]] = [regex |-> "compiled", compiled |-> 1]]
    /\ tpc' = [tpc EXCEPT ![t] = "load_count"]
    /\ UNCHANGED <<ti, fline, tcalls, csv, norm_rule_count, norm_rules_loaded>>
    /\ UNCHANGED <<buildVars, synthVars, openVars, stretchVars, numberVars, silenceVars>>

\* norm_rule_count++;
LoadCount(t) ==
    /\ tpc[t] = "load_count"
    /\ norm_rule_count' = norm_rule_count + 1
    /\ tpc' = [tpc EXCEPT ![t] = "load_line"]
    /\ UNCHANGED <<ti, fline, tcalls, csv, norm_rules, norm_rules_loaded>>
    /\ UNCHANGED <<buildVars, synthVars, openVars, stretchVars, numberVars, silenceVars>>

\* The loop ends: fclose(f); norm_rules_loaded = 1;
LoadDone(t) ==
    /\ tpc[t] = "load_line"
    /\ ~(fline[t] < csv.lines /\ norm_rule_count < MAX_NORM_RULES)
    /\ norm_rules_loaded' = 1
    /\ tpc' = [tpc EXCEPT ![t] = "apply_check"]
    /\ UNCHANGED <<ti, fline, tcalls, csv, norm_rules, norm_rule_count>>
    /\ UNCHANGED <<buildVars, synthVars, openVars, stretchVars, numberVars, silenceVars>>

\* ctts_apply_normalization: if (norm_rule_count == 0) return strdup(text);
\* The rest of ctts_synthesize works on the handle and the heap only.
ApplyCheck(t) ==
    /\ tpc[t] = "apply_check"
    /\ tpc' = [tpc EXCEPT ![t] = IF norm_rule_count = 0 THEN "idle" ELSE "apply_loop"]
    /\ ti' = [ti EXCEPT ![t] = 0]
    /\ UNCHANGED <<fline, tcalls, csv, norm_rules, norm_rule_count, norm_rules_loaded>>
    /\ UNCHANGED <<buildVars, synthVars, openVars, stretchVars, numberVars, silenceVars>>

\* for (i = 0; i < norm_rule_count; i++) { rule = &norm_rules[i];
\*     if (!rule->compiled) continue;
ApplyLoop(t) ==
    /\ tpc[t] = "apply_loop"
    /\ IF ti[t] < norm_rule_count
       THEN IF norm_rules[ti[t]].compiled = 0
            THEN /\ ti' = [ti EXCEPT ![t] = @ + 1]
                 /\ UNCHANGED tpc
            ELSE /\ tpc' = [tpc EXCEPT ![t] = "apply_exec"]
                 /\ UNCHANGED ti
       ELSE /\ tpc' = [tpc EXCEPT ![t] = "idle"]
            /\ UNCHANGED ti
    /\ UNCHANGED <<fline, tcalls, csv, norm_rules, norm_rule_count, norm_rules_loaded>>
    /\ UNCHANGED <<buildVars, synthVars, openVars, stretchVars, numberVars, silenceVars>>

\* The regexec(&rule->regex, ...) loop of rule i, then i++.
ApplyExec(t) ==
    /\ tpc[t] = "apply_exec"
    /\ ti' = [ti EXCEPT ![t] = @ + 1]
    /\ tpc' = [tpc EXCEPT ![t] = "apply_loop"]
    /\ UNCHANGED <<fline, tcalls, csv, norm_rules, norm_rule_count, norm_rules_loaded>>
    /\ UNCHANGED <<buildVars, synthVars, openVars, stretchVars, numberVars, silenceVars>>

\* The thread calls ctts_free on its handle: munmap, close, free(engine), then
\* ctts_free_normalization().
ThreadFree(t) ==
    /\ tpc[t] = "idle"
    /\ tpc' = [tpc EXCEPT ![t] = "free_loop"]
    /\ ti' = [ti EXCEPT ![t] = 0]
    /\ UNCHANGED <<fline, tcalls, csv, norm_rules, norm_rule_count, norm_rules_loaded>>
    /\ UNCHANGED <<buildVars, synthVars, openVars, stretchVars, numberVars, silenceVars>>

\* for (i = 0; i < norm_rule_count; i++)
\*     if (norm_rules[i].compiled) { regfree(...); norm_rules[i].compiled = 0; }
FreeLoop(t) ==
    /\ tpc[t] = "free_loop"
    /\ IF ti[t] < norm_rule_count
       THEN /\ norm_rules' =
                  IF norm_rules[ti[t]].compiled # 0
                  THEN [norm_rules EXCEPT ![ti[t]] = [regex |-> "freed", compiled |-> 0]]
                  ELSE norm_rules
            /\ ti' = [ti EXCEPT ![t] = @ + 1]
            /\ UNCHANGED tpc
       ELSE /\ tpc' = [tpc EXCEPT ![t] = "free_reset"]
            /\ UNCHANGED <<ti, norm_rules>>
    /\ UNCHANGED <<fline, tcalls, csv, norm_rule_count, norm_rules_loaded>>
    /\ UNCHANGED <<buildVars, synthVars, openVars, stretchVars, numberVars, silenceVars>>

\* norm_rule_count = 0; norm_rules_loaded = 0; the handle is gone.
FreeReset(t) ==
    /\ tpc[t] = "free_reset"
    /\ norm_rule_count' = 0
    /\ norm_rules_loaded' = 0
    /\ tpc' = [tpc EXCEPT ![t] = "freed"]
    /\ UNCHANGED <<ti, fline, tcalls, csv, norm_rules>>
    /\ UNCHANGED <<buildVars, synthVars, openVars, stretchVars, numberVars, silenceVars>>

----------------------------------------------------------------------------
(* The stages that compute samples, followed at one sample each: the frame
   loop and the normalisation of time_stretch at output index frame_size - 1,
   and the crossfade region of buffer_append_crossfade *)

NoStore == [stage |-> "none", result |-> 0, value |-> 0]

StretchIdle ==
    /\ tsc = "idle"
    /\ stretch_speed = 1000
    /\ synthesis_pos = 0
    /\ out_sample = 0
    /\ norm_acc = 0
    /\ stored = NoStore

\* The output index that is followed: the last sample of the first frame, which
\* every frame starting at or before it overlaps.
WatchedIndex == frame_size - 1

\* An input of ten frames, long enough for every frame that overlaps the index.
StretchInputCount == 10 * frame_size

\* "(*output)[synthesis_pos + i] += (int16_t)sample; norm[...] += window[i];" for
\* the i that falls on the followed index, with any input sample under it.
StretchFrame ==
    /\ tsc = "frames"
    /\ LET analysis_pos == (synthesis_pos \div synthesis_hop(stretch_speed))
                           * analysis_hop
           output_count == SizeValue(StretchOutputCount(StretchInputCount,
                                                        stretch_speed))
       IN /\ analysis_pos + frame_size <= StretchInputCount
          /\ synthesis_pos + frame_size <= output_count
    /\ synthesis_pos <= WatchedIndex
    /\ \E s \in SampleValues :
          LET i == WatchedIndex - synthesis_pos
              sample == TruncDiv(s * hanning(i), 1000)
              sum == out_sample + sample
          IN /\ out_sample' = ToInt16(sum)
             /\ norm_acc' = norm_acc + hanning(i)
             /\ stored' = [stage |-> "overlap_add", result |-> sum,
                           value |-> ToInt16(sum)]
    /\ synthesis_pos' = synthesis_pos + synthesis_hop(stretch_speed)
    /\ UNCHANGED <<tsc, stretch_speed>>
    /\ UNCHANGED <<buildVars, synthVars, openVars, threadVars, numberVars, silenceVars>>

\* The frames that start after the followed index write other samples.
StretchFramesDone ==
    /\ tsc = "frames"
    /\ synthesis_pos > WatchedIndex
    /\ tsc' = "normalize"
    /\ UNCHANGED <<stretch_speed, synthesis_pos, out_sample, norm_acc, stored>>
    /\ UNCHANGED <<buildVars, synthVars, openVars, threadVars, numberVars, silenceVars>>

\* "if (norm[i] > 0.01f) { float val = (*output)[i] / norm[i]; clamp; store }"
StretchNormalize ==
    /\ tsc = "normalize"
    /\ IF norm_acc > 10
       THEN LET val == TruncDiv(out_sample * 1000, norm_acc)
            IN /\ out_sample' = Clamp16(val)
               /\ stored' = [stage |-> "normalize", result |-> val,
                             value |-> Clamp16(val)]
       ELSE UNCHANGED <<out_sample, stored>>
    /\ tsc' = "done"
    /\ UNCHANGED <<stretch_speed, synthesis_pos, norm_acc>>
    /\ UNCHANGED <<buildVars, synthVars, openVars, threadVars, numberVars, silenceVars>>

\* prev_gain and next_gain of the raised-cosine crossfade, in thousandths, at
\* t = 0, 1/4, 1/2 and 3/4.
CrossfadeGains == {<<1000, 0>>, <<854, 146>>, <<500, 500>>, <<146, 854>>}

\* Lines 2404-2419: one sample of the crossfade region, out_sample being
\* buf->data[fade_start + i] and next_sample copy[i].
CrossfadeMix ==
    /\ tsc = "crossfade"
    /\ \E next_sample \in SampleValues, gains \in CrossfadeGains :
          LET mixed == TruncDiv((out_sample * gains[1]) + (next_sample * gains[2]),
                                1000)
          IN /\ out_sample' = Clamp16(mixed)
             /\ stored' = [stage |-> "crossfade", result |-> mixed,
                           value |-> Clamp16(mixed)]
    /\ tsc' = "done"
    /\ UNCHANGED <<stretch_speed, synthesis_pos, norm_acc>>
    /\ UNCHANGED <<buildVars, synthVars, openVars, threadVars, numberVars, silenceVars>>

----------------------------------------------------------------------------
(* One digit run through expand_numbers: the parse loop and the blocks of
   full_number_to_words_pt.  A long is held as seven limbs of three decimal
   digits, the least significant first *)

\* LONG_MAX of a 64-bit long: 9223372036854775807
LONG_MAX == <<807, 775, 854, 36, 372, 223, 9>>

LongLimbs == Len(LONG_MAX)

LongZero == [i \in 1..LongLimbs |-> 0]

\* The limbs from i on of limbs * 10 + carry, and the carry out of the last.
RECURSIVE Carry10(_, _, _)
Carry10(limbs, i, carry) ==
    IF i > Len(limbs) THEN <<carry>>
    ELSE <<((limbs[i] * 10) + carry) % 1000>>
         \o Carry10(limbs, i + 1, ((limbs[i] * 10) + carry) \div 1000)

\* a > b, on limbs i down to 1.
RECURSIVE LimbsGreater(_, _, _)
LimbsGreater(a, b, i) ==
    IF i = 0 THEN FALSE
    ELSE IF a[i] # b[i] THEN a[i] > b[i]
    ELSE LimbsGreater(a, b, i - 1)

\* n >= 1000000000
AtLeastBillion(limbs) == \E i \in 4..LongLimbs : limbs[i] # 0

\* n / 1000000000 fits an int: it is at most INT_MAX, 2147483647.
QuotientFitsInt(limbs) ==
    /\ limbs[7] = 0
    /\ (limbs[6] < 2147 \/ (limbs[6] = 2147 /\ (limbs[5] * 1000) + limbs[4] <= 483647))

\* n / 1000000000, when it fits
BillionsOf(limbs) == (limbs[6] * 1000000) + (limbs[5] * 1000) + limbs[4]

\* n % 1000000000
BelowBillion(limbs) == (limbs[3] * 1000000) + (limbs[2] * 1000) + limbs[1]

\* The long of a value below 1000000000.
LongOf(n) ==
    [i \in 1..LongLimbs |->
        IF i = 1 THEN n % 1000
        ELSE IF i = 2 THEN (n \div 1000) % 1000
        ELSE IF i = 3 THEN n \div 1000000
        ELSE 0]

\* The table entries number_to_words_pt(n) reads, for any int n >= 0.
TableReads(n) ==
    IF n = 0 \/ n = 100 THEN {}
    ELSE (IF n \div 100 > 0 THEN {[table |-> "hundreds_pt", index |-> n \div 100]} ELSE {})
         \cup (IF n % 100 > 0 /\ n % 100 < 20
               THEN {[table |-> "units_pt", index |-> n % 100]} ELSE {})
         \cup (IF n % 100 >= 20
               THEN {[table |-> "tens_pt", index |-> (n % 100) \div 10]} ELSE {})
         \cup (IF n % 100 >= 20 /\ n % 10 > 0
               THEN {[table |-> "units_pt", index |-> n % 10]} ELSE {})

\* The entries of a table: units_pt has 20, tens_pt and hundreds_pt have 10.
TableLen(table) ==
    IF table = "units_pt" THEN Len(units_pt)
    ELSE IF table = "tens_pt" THEN Len(tens_pt)
    ELSE Len(hundreds_pt)

InTable(read) == read.index >= 0 /\ read.index < TableLen(read.table)

\* number_to_words_pt(n, temp, sizeof(temp)) followed by the strncat of temp
\* and of the suffix.  A read past a table is undefined: the call is followed
\* no further.
BucketWords(n, suffix, next_pc) ==
    /\ table_reads' = table_reads \cup TableReads(n)
    /\ IF \A read \in TableReads(n) : InTable(read)
       THEN /\ words_buf' = words_buf \o number_to_words_pt(n) \o suffix
            /\ npc' = next_pc
       ELSE /\ words_buf' = words_buf
            /\ npc' = "undefined"

NumbersIdle ==
    /\ npc = "idle"
    /\ digit_run = <<>>
    /\ digit_pos = 0
    /\ long_num = LongZero
    /\ overflowed = FALSE
    /\ words_buf = <<>>
    /\ table_reads = {}

\* Lines 600-606: num = num * 10 + (*src - '0'); src++.  Signed overflow is
\* undefined: the call is followed no further.
NumberParseDigit ==
    /\ npc = "parse"
    /\ digit_pos < Len(digit_run)
    /\ \E r \in {Carry10(long_num, 1, digit_run[digit_pos + 1] - 48)} :
          IF r[LongLimbs + 1] > 0 \/ LimbsGreater(SubSeq(r, 1, LongLimbs), LONG_MAX, LongLimbs)
          THEN /\ overflowed' = TRUE
               /\ npc' = "undefined"
               /\ UNCHANGED long_num
          ELSE /\ long_num' = SubSeq(r, 1, LongLimbs)
               /\ UNCHANGED <<overflowed, npc>>
    /\ digit_pos' = digit_pos + 1
    /\ UNCHANGED <<digit_run, words_buf, table_reads>>
    /\ UNCHANGED <<buildVars, synthVars, openVars, threadVars, stretchVars, silenceVars>>

\* Lines 609-610 and 523-534: the call of full_number_to_words_pt; n == 0.
NumberCall ==
    /\ npc = "parse"
    /\ digit_pos = Len(digit_run)
    /\ IF long_num = LongZero
       THEN /\ words_buf' = <<122, 101, 114, 111>>
            /\ npc' = "done"
       ELSE /\ words_buf' = <<>>
            /\ npc' = "billions"
    /\ UNCHANGED <<digit_run, digit_pos, long_num, overflowed, table_reads>>
    /\ UNCHANGED <<buildVars, synthVars, openVars, threadVars, stretchVars, silenceVars>>

\* Lines 536-545: "Billions".  int billions = n / 1000000000: a quotient above
\* INT_MAX has no defined int value, and the call is followed no further.
NumberBillions ==
    /\ npc = "billions"
    /\ IF ~AtLeastBillion(long_num)
       THEN /\ npc' = "millions"
            /\ UNCHANGED <<long_num, words_buf, table_reads>>
       ELSE IF ~QuotientFitsInt(long_num)
       THEN /\ npc' = "undefined"
            /\ UNCHANGED <<long_num, words_buf, table_reads>>
       ELSE /\ BucketWords(BillionsOf(long_num),
                           (IF BillionsOf(long_num) = 1
                            THEN <<32, 98, 105, 108, 104, 195, 163, 111>>
                            ELSE <<32, 98, 105, 108, 104, 195, 181, 101, 115>>)
                           \o (IF BelowBillion(long_num) > 0 THEN Conj ELSE <<>>),
                           "millions")
            /\ long_num' = LongOf(BelowBillion(long_num))
    /\ UNCHANGED <<digit_run, digit_pos, overflowed>>
    /\ UNCHANGED <<buildVars, synthVars, openVars, threadVars, stretchVars, silenceVars>>

\* Lines 547-556: "Millions".
NumberMillions ==
    /\ npc = "millions"
    /\ \E n \in {BelowBillion(long_num)} :
          IF n >= 1000000
          THEN /\ words_buf' = words_buf \o MillionsWords(n)
               /\ table_reads' = table_reads \cup TableReads(n \div 1000000)
               /\ long_num' = LongOf(n % 1000000)
          ELSE UNCHANGED <<long_num, words_buf, table_reads>>
    /\ npc' = "thousands"
    /\ UNCHANGED <<digit_run, digit_pos, overflowed>>
    /\ UNCHANGED <<buildVars, synthVars, openVars, threadVars, stretchVars, silenceVars>>

\* Lines 558-577: "Thousands".
NumberThousands ==
    /\ npc = "thousands"
    /\ \E n \in {BelowBillion(long_num)} :
          IF n >= 1000
          THEN /\ words_buf' = words_buf \o ThousandsWords(n)
               /\ table_reads' = table_reads \cup
                                 (IF n \div 1000 = 1 THEN {} ELSE TableReads(n \div 1000))
               /\ long_num' = LongOf(n % 1000)
          ELSE UNCHANGED <<long_num, words_buf, table_reads>>
    /\ npc' = "units"
    /\ UNCHANGED <<digit_run, digit_pos, overflowed>>
    /\ UNCHANGED <<buildVars, synthVars, openVars, threadVars, stretchVars, silenceVars>>

\* Lines 579-583: what is left below 1000.
NumberUnits ==
    /\ npc = "units"
    /\ \E n \in {BelowBillion(long_num)} :
          IF n > 0
          THEN /\ words_buf' = words_buf \o number_to_words_pt(n)
               /\ table_reads' = table_reads \cup TableReads(n)
          ELSE UNCHANGED <<words_buf, table_reads>>
    /\ npc' = "done"
    /\ UNCHANGED <<digit_run, digit_pos, long_num, overflowed>>
    /\ UNCHANGED <<buildVars, synthVars, openVars, threadVars, stretchVars, silenceVars>>

----------------------------------------------------------------------------
(* One call of remove_silence_regions.  samples[p] is region_samples[p + 1];
   the sequence grows when the function writes past the region, into the
   buffer's memory that follows it *)

NoLength == -1

SilenceIdle ==
    /\ rpc = "idle"
    /\ region_samples = <<>>
    /\ region_orig = <<>>
    /\ region_count = 0
    /\ abs_threshold = 0
    /\ silence_min = 0
    /\ write_pos = 0
    /\ read_pos = 0
    /\ new_word_len = NoLength

\* int16_t abs_val = samples[i] > 0 ? samples[i] : -samples[i]
AbsVal(v) == IF v > 0 THEN v ELSE -v

\* "Find max amplitude for relative threshold"
RECURSIVE MaxAmp(_, _, _)
MaxAmp(data, i, max_amp) ==
    IF i > Len(data) THEN max_amp
    ELSE MaxAmp(data, i + 1, IF AbsVal(data[i]) > max_amp THEN AbsVal(data[i]) ELSE max_amp)

\* samples[p] = v
Store(data, p, v) ==
    IF p + 1 <= Len(data) THEN [data EXCEPT ![p + 1] = v] ELSE Append(data, v)

\* samples[dst++] = samples[src + i] for i = 0 .. n - 1, one sample after the other
RECURSIVE CopySamples(_, _, _, _)
CopySamples(data, dst, src, n) ==
    IF n = 0 THEN data
    ELSE CopySamples(Store(data, dst, data[src + 1]), dst + 1, src + 1, n - 1)

\* The position where the silence that starts at p ends: the first sample
\* above the threshold, or count.
RECURSIVE SilenceEnd(_, _, _, _)
SilenceEnd(data, p, count, limit) ==
    IF p < count /\ AbsVal(data[p + 1]) <= limit
    THEN SilenceEnd(data, p + 1, count, limit)
    ELSE p

\* Lines 1578-1590: count == 0, the maximum amplitude, the absolute threshold.
\* The threshold is in thousandths.
SilenceScan(threshold) ==
    /\ rpc = "call"
    /\ IF region_count = 0
       THEN /\ new_word_len' = 0
            /\ rpc' = "done"
            /\ UNCHANGED abs_threshold
       ELSE IF MaxAmp(region_samples, 1, 0) = 0
       THEN /\ new_word_len' = region_count
            /\ rpc' = "done"
            /\ UNCHANGED abs_threshold
       ELSE /\ abs_threshold' = (MaxAmp(region_samples, 1, 0) * threshold) \div 1000
            /\ rpc' = "loop"
            /\ UNCHANGED new_word_len
    /\ UNCHANGED <<region_samples, region_orig, region_count, silence_min, write_pos,
                   read_pos>>
    /\ UNCHANGED <<buildVars, synthVars, openVars, threadVars, stretchVars, numberVars>>

\* Lines 1599-1625: the sample at read_pos is silence; the silence is measured
\* and its first keep samples, or all of it, are copied to write_pos.
SilenceRun ==
    /\ rpc = "loop"
    /\ read_pos < region_count
    /\ AbsVal(region_samples[read_pos + 1]) <= abs_threshold
    /\ \E silence_end \in {SilenceEnd(region_samples, read_pos, region_count,
                                      abs_threshold)} :
          LET silence_start == read_pos
              silence_len == silence_end - silence_start
              keep == IF silence_min \div 4 < 10 THEN 10 ELSE silence_min \div 4
              copied == IF silence_len >= silence_min
                        THEN Min(keep, region_count - silence_start)
                        ELSE silence_len
          IN /\ read_pos' = silence_end
             /\ region_samples' = CopySamples(region_samples, write_pos, silence_start,
                                              copied)
             /\ write_pos' = write_pos + copied
    /\ UNCHANGED <<rpc, region_orig, region_count, abs_threshold, silence_min,
                   new_word_len>>
    /\ UNCHANGED <<buildVars, synthVars, openVars, threadVars, stretchVars, numberVars>>

\* Lines 1626-1629: "Not silence - copy sample"
SilenceCopy ==
    /\ rpc = "loop"
    /\ read_pos < region_count
    /\ AbsVal(region_samples[read_pos + 1]) > abs_threshold
    /\ region_samples' = Store(region_samples, write_pos, region_samples[read_pos + 1])
    /\ write_pos' = write_pos + 1
    /\ read_pos' = read_pos + 1
    /\ UNCHANGED <<rpc, region_orig, region_count, abs_threshold, silence_min,
                   new_word_len>>
    /\ UNCHANGED <<buildVars, synthVars, openVars, threadVars, stretchVars, numberVars>>

\* Line 1632: return write_pos
SilenceReturn ==
    /\ rpc = "loop"
    /\ read_pos >= region_count
    /\ new_word_len' = write_pos
    /\ rpc' = "done"
    /\ UNCHANGED <<region_samples, region_orig, region_count, abs_threshold,
                   silence_min, write_pos, read_pos>>
    /\ UNCHANGED <<buildVars, synthVars, openVars, threadVars, stretchVars, numberVars>>

----------------------------------------------------------------------------
(* The builder as a process, and lookups in the database it wrote *)

\* The byte strings looked up: every folded unit text, and strings no unit has
\* ("b", "ba", "rab", the unfolded "A", a prefix of "ç").
Queries ==
    {ctts_normalize(u.text) : u \in RawUnits}
        \cup {<<98>>, <<98, 97>>, <<114, 97, 98>>, <<65>>, <<195>>}

NoLookup == [q |-> <<>>, res |-> -2]

\* The synthesis variables while no call is being made.
SynthIdle ==
    /\ config = ctts_config_defaults
    /\ text = <<>>
    /\ speed = 1000
    /\ spc = "idle"
    /\ fold = <<>>
    /\ pos = 1
    /\ buf = <<>>
    /\ capacity = 0
    /\ prev_was_word_boundary = TRUE
    /\ prev_unit = -1
    /\ prev_end_phoneme = "OTHER"
    /\ current_word_index = 0
    /\ word_start_sample = 0
    /\ units_found = 0
    /\ units_missing = 0
    /\ prosody = [is_question |-> FALSE, word_count |-> 0]
    /\ err = CTTS_OK
    /\ sample_count = NoCall
    /\ failed = {}
    /\ trace = <<>>

InitBuild ==
    /\ StretchIdle
    /\ NumbersIdle
    /\ SilenceIdle
    /\ SynthIdle
    /\ OpenIdle
    /\ ThreadsIdle
    /\ bpc = "start"
    /\ raw_units \in SeqsUpTo(RawUnits, MaxUnits)
    /\ all_units = <<>>
    /\ bi = 0
    /\ db = NewDatabase(<<>>)
    /\ lookup = NoLookup

\* Load letters and syllables, merge, qsort, size the table, calloc and memset.
BuildLoad ==
    /\ bpc = "start"
    /\ \E sorted \in QsortResults([i \in 1..Len(raw_units) |-> LoadUnit(raw_units[i])]) :
          /\ all_units' = sorted
          /\ db' = NewDatabase(sorted)
    /\ bi' = 0
    /\ bpc' = "insert"
    /\ UNCHANGED <<raw_units, lookup>>
    /\ UNCHANGED <<synthVars, openVars, threadVars, stretchVars, numberVars, silenceVars>>

\* for (size_t i = 0; i < total_count; i++) { ... }
BuildInsert ==
    /\ bpc = "insert"
    /\ bi < db.unit_count
    /\ db' = InsertUnit(db, all_units, bi)
    /\ bi' = bi + 1
    /\ UNCHANGED <<bpc, raw_units, all_units, lookup>>
    /\ UNCHANGED <<synthVars, openVars, threadVars, stretchVars, numberVars, silenceVars>>

\* fwrite of index, hash table, string pool and audio.
BuildWrite ==
    /\ bpc = "insert"
    /\ bi >= db.unit_count
    /\ db' = WriteStrings(db, all_units)
    /\ bpc' = "done"
    /\ UNCHANGED <<raw_units, all_units, bi, lookup>>
    /\ UNCHANGED <<synthVars, openVars, threadVars, stretchVars, numberVars, silenceVars>>

\* A reader of the written database looks a byte string up.
Lookup ==
    /\ bpc = "done"
    /\ \E q \in Queries : lookup' = [q |-> q, res |-> find_unit(db, q)]
    /\ UNCHANGED <<bpc, raw_units, all_units, bi, db>>
    /\ UNCHANGED <<synthVars, openVars, threadVars, stretchVars, numberVars, silenceVars>>

NextBuild == BuildLoad \/ BuildInsert \/ BuildWrite \/ Lookup


\* engine->units_found and engine->units_missing as an earlier call on the
\* handle left them: a fresh handle, or one that synthesized three units and
\* missed two characters.
StaleCounters == {<<0, 0>>, <<3, 2>>}

\* The state in which ctts_synthesize is called: a database built from one of
\* the stores, a configuration, a text and a speed.
SynthStart(store_set, text_set, config_set) ==
    /\ StretchIdle
    /\ NumbersIdle
    /\ SilenceIdle
    /\ OpenIdle
    /\ ThreadsIdle
    /\ \E us \in store_set : all_units = us /\ db = BuildDatabase(us)
    /\ bpc = "done"
    /\ raw_units = <<>>
    /\ bi = db.unit_count
    /\ lookup = NoLookup
    /\ config \in config_set
    /\ text \in text_set
    /\ speed \in Speeds
    /\ spc = "call"
    /\ fold = <<>>
    /\ pos = 1
    /\ buf = <<>>
    /\ capacity = 0
    /\ prev_was_word_boundary = TRUE
    /\ prev_unit = -1
    /\ prev_end_phoneme = "OTHER"
    /\ current_word_index = 0
    /\ word_start_sample = 0
    /\ \E last \in StaleCounters : /\ units_found = last[1]
                                   /\ units_missing = last[2]
    /\ prosody = [is_question |-> FALSE, word_count |-> 0]
    /\ err = CTTS_OK
    /\ sample_count = NoCall
    /\ failed = {}
    /\ trace = <<>>

InitSynth == SynthStart(Stores, Texts, Configs)

\* A store with a unit for every phoneme class at its end ("ba", "ap", "as",
\* "af", "am", "al", "ar", "ah") and at its start ("e", "pe", "fe", "ne", "le",
\* "he"), in the order the builder sorts them: longer units first, then strcmp.
PhonemeStore ==
    LET lines == << <<97, 102>>, <<97, 104>>, <<97, 108>>, <<97, 109>>,
                    <<97, 112>>, <<97, 114>>, <<97, 115>>, <<98, 97>>,
                    <<102, 101>>, <<104, 101>>, <<108, 101>>, <<110, 101>>,
                    <<112, 101>>, <<101>> >>
    IN [i \in 1..Len(lines) |-> LoadUnit([text |-> lines[i], sample_count |-> 2000])]

\* Every unit that ends a class followed by every unit that starts one, and
\* "ap-pe", "ba e", "as,e", "(ape", "xe".
JoinTexts ==
    {first \o second :
        first \in {<<98, 97>>, <<97, 112>>, <<97, 115>>, <<97, 102>>, <<97, 109>>,
                   <<97, 108>>, <<97, 114>>, <<97, 104>>},
        second \in {<<101>>, <<112, 101>>, <<102, 101>>, <<110, 101>>, <<108, 101>>,
                    <<104, 101>>}}
    \cup {<<97, 112, 45, 112, 101>>, <<98, 97, 32, 101>>, <<97, 115, 44, 101>>,
          <<40, 97, 112, 101>>, <<120, 101>>}

\* A configuration file that sets crossfade_s_ending_ms to 5 and
\* crossfade_r_ending_ms to 7: below what the classes of "s" and "r" give.
TightEndings ==
    [ctts_config_defaults EXCEPT !.crossfade_s_ending_ms = 500,
                                 !.crossfade_r_ending_ms = 700]

InitJoin == SynthStart({PhonemeStore}, JoinTexts, {ctts_config_defaults, TightEndings})

NextSynth ==
    \/ SynthPrepare
    \/ SynthWhitespace
    \/ SynthHyphen
    \/ SynthPunctuation
    \/ SynthSkip
    \/ SynthMatch
    \/ SynthNoMatch
    \/ SynthFinish

\* The database variables while no database is being built or read.
BuildIdle ==
    /\ bpc = "idle"
    /\ raw_units = <<>>
    /\ all_units = <<>>
    /\ bi = 0
    /\ db = NewDatabase(<<>>)
    /\ lookup = NoLookup

InitOpen ==
    /\ StretchIdle
    /\ NumbersIdle
    /\ SilenceIdle
    /\ BuildIdle
    /\ SynthIdle
    /\ ThreadsIdle
    /\ ipc = "call"
    /\ db_file \in DbFiles
    /\ engine = NewEngine

NextOpen ==
    \/ InitCalloc
    \/ InitOpenFile
    \/ InitFstat
    \/ InitMmap
    \/ InitParseHeader

\* Two threads hold a handle each, opened before they start; normalization.csv
\* is absent, or present with up to MaxRules rule lines.
InitThreads ==
    /\ StretchIdle
    /\ NumbersIdle
    /\ SilenceIdle
    /\ BuildIdle
    /\ SynthIdle
    /\ OpenIdle
    /\ tpc = [t \in Threads |-> "idle"]
    /\ ti = [t \in Threads |-> 0]
    /\ fline = [t \in Threads |-> 0]
    /\ tcalls = [t \in Threads |-> 0]
    /\ csv \in {[present |-> FALSE, lines |-> 0]}
                \cup {[present |-> TRUE, lines |-> n] : n \in 0..MaxRules}
    /\ norm_rules = [s \in Slots |-> NoRule]
    /\ norm_rule_count = 0
    /\ norm_rules_loaded = 0

NextThreads ==
    \E t \in Threads :
        \/ ThreadSynthesize(t)
        \/ LoadCheck(t)
        \/ LoadOpen(t)
        \/ LoadLine(t)
        \/ LoadRegcomp(t)
        \/ LoadCount(t)
        \/ LoadDone(t)
        \/ ApplyCheck(t)
        \/ ApplyLoop(t)
        \/ ApplyExec(t)
        \/ ThreadFree(t)
        \/ FreeLoop(t)
        \/ FreeReset(t)

\* time_stretch is entered with a zeroed output (calloc) at a speed other than
\* 1.0; the crossfade is entered with any sample at the end of the buffer.
InitSamples ==
    /\ NumbersIdle
    /\ SilenceIdle
    /\ BuildIdle
    /\ SynthIdle
    /\ OpenIdle
    /\ ThreadsIdle
    /\ tsc \in {"frames", "crossfade"}
    /\ stretch_speed \in IF tsc = "frames" THEN Speeds \ {1000} ELSE {1000}
    /\ synthesis_pos = 0
    /\ out_sample \in IF tsc = "frames" THEN {0} ELSE SampleValues
    /\ norm_acc = 0
    /\ stored = NoStore

NextSamples ==
    \/ StretchFrame
    \/ StretchFramesDone
    \/ StretchNormalize
    \/ CrossfadeMix

\* The bytes of the strings that are folded: 'A' and 'a'; the lead byte and the
\* continuation bytes of "Ç", "ç" and "É"; the lead bytes 0xC0 and 0xC1 of
\* overlong forms and the continuation bytes 0x80 and 0x81; a three-byte and two
\* four-byte lead bytes; and 0xFF, which is no UTF-8 byte at all.
FoldBytes == {65, 97, 195, 135, 167, 137, 192, 193, 128, 129, 226, 240, 247, 255}

MaxFoldLen == 3

\* ctts_normalize is called on any string of those bytes, well formed or not.
InitFold ==
    /\ BuildIdle
    /\ OpenIdle
    /\ ThreadsIdle
    /\ StretchIdle
    /\ NumbersIdle
    /\ SilenceIdle
    /\ config = ctts_config_defaults
    /\ text \in SeqsUpTo(FoldBytes, MaxFoldLen)
    /\ speed = 1000
    /\ spc = "fold"
    /\ fold = <<>>
    /\ pos = 1
    /\ buf = <<>>
    /\ capacity = 0
    /\ prev_was_word_boundary = TRUE
    /\ prev_unit = -1
    /\ prev_end_phoneme = "OTHER"
    /\ current_word_index = 0
    /\ word_start_sample = 0
    /\ units_found = 0
    /\ units_missing = 0
    /\ prosody = [is_question |-> FALSE, word_count |-> 0]
    /\ err = CTTS_OK
    /\ sample_count = NoCall
    /\ failed = {}
    /\ trace = <<>>

\* char* normalized = ctts_normalize(text)
FoldOnce ==
    /\ spc = "fold"
    /\ fold' = ctts_normalize(text)
    /\ spc' = "folded"
    /\ UNCHANGED <<config, text, speed, pos, buf, capacity, prev_was_word_boundary,
                   prev_unit, prev_end_phoneme, current_word_index,
                   word_start_sample, units_found, units_missing, prosody, err,
                   sample_count, failed, trace>>
    /\ UNCHANGED <<buildVars, openVars, threadVars, stretchVars, numberVars, silenceVars>>

\* ctts_normalize(normalized): the fold of a string that is already folded, as
\* the builder and the synthesizer apply it to the same text.
FoldAgain ==
    /\ spc = "folded"
    /\ fold' = ctts_normalize(fold)
    /\ spc' = "refolded"
    /\ UNCHANGED <<config, text, speed, pos, buf, capacity, prev_was_word_boundary,
                   prev_unit, prev_end_phoneme, current_word_index,
                   word_start_sample, units_found, units_missing, prosody, err,
                   sample_count, failed, trace>>
    /\ UNCHANGED <<buildVars, openVars, threadVars, stretchVars, numberVars, silenceVars>>

NextFold ==
    \/ FoldOnce
    \/ FoldAgain

\* The values of a group of three digits that the digit runs are built from:
\* nothing, one, a unit, ten, a teen, tens with a unit, the ends of the ranges
\* below and above one hundred, and the largest.
BucketValues == {0, 1, 2, 10, 19, 21, 99, 100, 101, 120, 999}

\* The three digits of a group.
Digits3(b) == <<48 + (b \div 100), 48 + ((b \div 10) % 10), 48 + (b % 10)>>

\* A digit string without its leading zeros; "0" for a string of zeros.
RECURSIVE StripZeros(_)
StripZeros(ds) ==
    IF Len(ds) > 1 /\ Head(ds) = 48 THEN StripZeros(Tail(ds)) ELSE ds

\* Nines(k): a run of k nines.
Nines(k) == [i \in 1..k |-> 57]

\* One followed by k zeros.
PowerOfTen(k) == <<49>> \o [i \in 1..k |-> 48]

\* The digit runs that are expanded: every number below 10^12 whose groups are
\* among BucketValues, as it is written; "000" and "007"; 10^12 and thirteen
\* nines; 10^18; LONG_MAX and LONG_MAX + 1; twenty nines.
DigitRuns ==
    {StripZeros(Digits3(b3) \o Digits3(b2) \o Digits3(b1) \o Digits3(b0)) :
        b3 \in BucketValues, b2 \in BucketValues, b1 \in BucketValues,
        b0 \in BucketValues}
    \cup {<<48, 48, 48>>, <<48, 48, 55>>, PowerOfTen(12), Nines(13), PowerOfTen(18),
          <<57, 50, 50, 51, 51, 55, 50, 48, 51, 54, 56, 53, 52, 55, 55, 53, 56, 48, 55>>,
          <<57, 50, 50, 51, 51, 55, 50, 48, 51, 54, 56, 53, 52, 55, 55, 53, 56, 48, 56>>,
          Nines(20)}

\* expand_numbers has found a digit at src: num = 0, num_start = src.
InitNumbers ==
    /\ BuildIdle
    /\ SynthIdle
    /\ OpenIdle
    /\ ThreadsIdle
    /\ StretchIdle
    /\ SilenceIdle
    /\ npc = "parse"
    /\ digit_run \in DigitRuns
    /\ digit_pos = 0
    /\ long_num = LongZero
    /\ overflowed = FALSE
    /\ words_buf = <<>>
    /\ table_reads = {}

NextNumbers ==
    \/ NumberParseDigit
    \/ NumberCall
    \/ NumberBillions
    \/ NumberMillions
    \/ NumberThousands
    \/ NumberUnits

\* The longest word region.
MaxRegion == 11

\* config->silence_threshold, in thousandths: the default 0.02, and 1.0
Thresholds == {20, 1000}

\* min_silence_samples: 0 (min_silence_ms = 0 in the configuration file), 2,
\* and 10
SilenceMins == {0, 2, 10}

\* A region of quiet and loud samples, each with a value of its own: sample p
\* is p when quiet and 1000 + p when loud.
Regions ==
    {[p \in 1..Len(loud) |-> IF loud[p] THEN 1000 + (p - 1) ELSE p - 1] :
        loud \in SeqsUpTo(BOOLEAN, MaxRegion)}

\* The caller has found word_samples > min_silence_samples.
InitSilence ==
    /\ BuildIdle
    /\ SynthIdle
    /\ OpenIdle
    /\ ThreadsIdle
    /\ StretchIdle
    /\ NumbersIdle
    /\ rpc = "call"
    /\ region_orig \in Regions
    /\ region_samples = region_orig
    /\ region_count = Len(region_orig)
    /\ silence_min \in SilenceMins
    /\ region_count > silence_min
    /\ abs_threshold = 0
    /\ write_pos = 0
    /\ read_pos = 0
    /\ new_word_len = NoLength

NextSilence ==
    \/ \E threshold \in Thresholds : SilenceScan(threshold)
    \/ SilenceRun
    \/ SilenceCopy
    \/ SilenceReturn


----------------------------------------------------------------------------
(* Specifications *)

vars ==
    <<buildVars, synthVars, openVars, threadVars, stretchVars, numberVars, silenceVars>>

\* The builder and lookups in what it wrote.
SpecBuild == InitBuild /\ [][NextBuild]_vars

\* One call of ctts_synthesize on an opened database.
Spec == InitSynth /\ [][NextSynth]_vars

\* One call of ctts_synthesize on a store with units of every phoneme class.
SpecJoin == InitJoin /\ [][NextSynth]_vars

\* One call of ctts_init on a database file.
SpecOpen == InitOpen /\ [][NextOpen]_vars

\* Two threads, each calling ctts_synthesize and ctts_free on its own handle.
SpecThreads == InitThreads /\ [][NextThreads]_vars

\* One sample through the frame loop and the normalisation of time_stretch, or
\* through the crossfade region of buffer_append_crossfade.
SpecSamples == InitSamples /\ [][NextSamples]_vars

\* ctts_normalize applied to a byte string and then to its own result.
SpecFold == InitFold /\ [][NextFold]_vars

\* One digit run through the parse loop of expand_numbers and through
\* full_number_to_words_pt.
SpecNumbers == InitNumbers /\ [][NextNumbers]_vars

\* One call of remove_silence_regions on a word region.
SpecSilence == InitSilence /\ [][NextSilence]_vars

----------------------------------------------------------------------------
(* Claims about the builder and the lookup (SpecBuild) *)

\* The entries a walk from idx visits, in order; it gives up after fuel steps.
RECURSIVE ChainWalk(_, _, _)
ChainWalk(index, idx, fuel) ==
    IF idx = EMPTY \/ fuel = 0 THEN <<>>
    ELSE <<idx>> \o ChainWalk(index, index[idx + 1].next_hash, fuel - 1)

SeqRange(w) == {w[k] : k \in 1..Len(w)}

BucketChain(b) == ChainWalk(db.index, db.hash_table[b + 1], db.unit_count + 1)

BucketMembers(b) ==
    {i \in 0..(db.unit_count - 1) :
        HashSlot(db.index[i + 1].hash, db.hash_table_size) = b}

\* C8: in every database the builder writes, the chain walked from each bucket
\* ends at the EMPTY sentinel (within unit_count steps) and visits exactly the
\* index entries whose hash mod hash_table_size is that bucket, each once.
C8_ChainsExact ==
    bpc = "done" =>
        \A b \in 0..(db.hash_table_size - 1) :
            LET w == BucketChain(b)
            IN /\ Len(w) <= db.unit_count
               /\ SeqRange(w) = BucketMembers(b)
               /\ Cardinality(SeqRange(w)) = Len(w)

\* A written database in which three units share one bucket.
C8_Witness ==
    /\ bpc = "done"
    /\ \E b \in 0..(db.hash_table_size - 1) : Len(BucketChain(b)) >= 3

StoredTexts == {all_units[i].text : i \in 1..Len(all_units)}

\* C9: in a database the builder wrote, find_unit on the folded text of a stored
\* unit returns an index whose stored string is the query, and find_unit on a
\* byte string no unit has returns -1.
C9_LookupRoundTrip ==
    (bpc = "done" /\ lookup # NoLookup) =>
        IF lookup.q \in StoredTexts
        THEN /\ lookup.res \in 0..(db.unit_count - 1)
             /\ UnitText(db, lookup.res) = lookup.q
        ELSE lookup.res = -1

\* A stored text was found behind the head of its chain, and the same bucket
\* holds a unit with another text.
C9_Witness ==
    /\ bpc = "done"
    /\ lookup.res >= 0
    /\ db.hash_table[HashSlot(ctts_hash(lookup.q), db.hash_table_size) + 1] # lookup.res
    /\ UnitText(db, db.hash_table[HashSlot(ctts_hash(lookup.q), db.hash_table_size) + 1])
           # lookup.q

----------------------------------------------------------------------------
(* Claims about the segmenter, checked on the selector calls of ctts_synthesize *)

\* The unit with index idx is one character long and that character is c..z
\* consonant or c-cedilla.
IsSingleConsonantUnit(idx) ==
    /\ db.index[idx + 1].char_count = 1
    /\ is_pt_consonant(ctts_utf8_next(UnitText(db, idx), 1).cp)

\* C1: whenever find_best_match_with_lookahead is called with at_word_start = 1
\* and returns a unit, that unit is not a single consonant character.
C1_NoSingleConsonantAtWordStart ==
    \A i \in 1..Len(trace) :
        (trace[i].kind = "match" /\ trace[i].aws) => ~IsSingleConsonantUnit(trace[i].idx)

\* A call at a word start where the store holds the single consonant the text
\* begins with, and a longer unit was returned.
C1_Witness ==
    \E i \in 1..Len(trace) :
        /\ trace[i].kind = "match"
        /\ trace[i].aws
        /\ trace[i].char_count >= 2
        /\ is_pt_consonant(At(fold, trace[i].pos))
        /\ find_unit(db, <<At(fold, trace[i].pos)>>) >= 0

\* C2: the segmenter never selects a one-character unit c when c followed by
\* the next input character is one of the digraphs ch, lh, nh, qu, gu.
C2_NoDigraphSplit ==
    \A i \in 1..Len(trace) :
        (trace[i].kind = "match" /\ db.index[trace[i].idx + 1].char_count = 1)
            => ~is_pt_digraph(At(fold, trace[i].pos),
                              At(fold, trace[i].pos + trace[i].advance), 2)

\* A call inside a word at "ch" where the store holds "c" but not "ch": the
\* selector returned nothing.
C2_Witness ==
    \E i \in 1..Len(trace) :
        /\ trace[i].kind = "nomatch"
        /\ ~trace[i].aws
        /\ is_pt_digraph(At(fold, trace[i].pos), At(fold, trace[i].pos + 1), 2)
        /\ find_unit(db, <<At(fold, trace[i].pos)>>) >= 0

----------------------------------------------------------------------------
(* Claims about the waveform ctts_synthesize returns *)

\* The buffer without the pauses at its end.
RECURSIVE StripPauses(_)
StripPauses(data) ==
    IF data = <<>> \/ data[Len(data)].kind # "pause" THEN data
    ELSE StripPauses(Front(data))

\* The runs after the last pause of the buffer.
RECURSIVE WordTail(_)
WordTail(data) ==
    IF data = <<>> \/ data[Len(data)].kind = "pause" THEN <<>>
    ELSE Append(WordTail(Front(data)), data[Len(data)])

\* The samples of the final word of the utterance.
FinalWord == WordTail(StripPauses(buf))

\* C3: for an input whose last non-whitespace character is '?', the samples of
\* the final word carry the rising question envelope when synthesize returns.
\* The final word here holds the samples of a unit and is at least 100 samples
\* long, the length below which apply_question_intonation does nothing.
C3_QuestionEnvelope ==
    (/\ spc = "done"
     /\ err = CTTS_OK
     /\ failed = {}
     /\ prosody.is_question
     /\ \E k \in 1..Len(FinalWord) : FinalWord[k].kind \in {"unit", "mix"}
     /\ BufCount(FinalWord) >= 100)
        => \A k \in 1..Len(FinalWord) : FinalWord[k].q > 0

\* C5: ctts_synthesize on "" returns success with sample_count = 0, at every
\* speed, when no allocation is refused.
C5_EmptyInput ==
    (text = <<>> /\ spc = "done" /\ failed = {})
        => (err = CTTS_OK /\ sample_count = 0)

\* C6: if an allocation or a buffer growth fails during ctts_synthesize, the
\* call returns CTTS_ERR_OUT_OF_MEMORY.
C6_AllocFailureSurfaces ==
    (spc = "done" /\ failed # {}) => err = CTTS_ERR_OUT_OF_MEMORY

\* Iterations i, i + 1, i + 2 of the loop are a unit, a hyphen and a unit.
HyphenBetweenUnits(i) ==
    /\ i + 2 <= Len(trace)
    /\ trace[i].kind = "match"
    /\ trace[i + 1].kind = "hyphen"
    /\ trace[i + 2].kind = "match"

\* The hyphen added no samples and left the word-boundary flag clear; the unit
\* after it took the crossfade branch and the buffer grew by unit_count - k.
HyphenJoin(i) ==
    /\ trace[i + 1].after = trace[i + 1].before
    /\ ~trace[i + 1].flag
    /\ ~trace[i + 2].aws
    /\ trace[i + 2].branch = "crossfade"
    /\ trace[i + 2].after - trace[i + 2].before
           = trace[i + 2].unit_count - trace[i + 2].k

\* C10 as stated: a hyphen between two matched units produces no silence, does
\* not set the word-boundary flag, and the unit after it is joined by the
\* crossfade branch, the buffer growing by unit_count - k.
C10_HyphenJoin_AsStated ==
    \A i \in 1..Len(trace) : HyphenBetweenUnits(i) => HyphenJoin(i)

\* C10 amended: the same, provided the buffer holds at least one sample when
\* the unit after the hyphen is appended and that unit has at least one sample.
C10_HyphenJoin ==
    \A i \in 1..Len(trace) :
        (/\ HyphenBetweenUnits(i)
         /\ trace[i + 2].before > 0
         /\ trace[i + 2].unit_count > 0) => HyphenJoin(i)

\* A unit joined across a hyphen by a crossfade shorter than the unit.
C10_Witness ==
    \E i \in 1..Len(trace) :
        /\ HyphenBetweenUnits(i)
        /\ trace[i + 2].branch = "crossfade"
        /\ trace[i + 2].k > 0
        /\ trace[i + 2].k < trace[i + 2].unit_count
----------------------------------------------------------------------------
(* Claims about ctts_init *)

\* The file is smaller than the header, or than an extent its header declares:
\* the index, the hash table, the string pool (which ends where the audio
\* begins) or the audio.
Truncated(file) ==
    \/ file.size < HeaderSize
    \/ file.size < ReadHeader(file).index_offset
                       + (ReadHeader(file).unit_count * IndexEntrySize)
    \/ file.size < ReadHeader(file).hash_table_offset
                       + (ReadHeader(file).hash_table_size * 4)
    \/ file.size < ReadHeader(file).audio_offset
    \/ file.size < ReadHeader(file).audio_offset
                       + (ReadHeader(file).total_samples * 2)

\* C7: ctts_init returns no engine whenever the file has a wrong magic, a
\* wrong version, or is truncated.
C7_CorruptAborts ==
    (/\ ipc = "done"
     /\ db_file.exists
     /\ \/ ReadHeader(db_file).magic # CTTS_MAGIC
        \/ ReadHeader(db_file).version # CTTS_VERSION
        \/ Truncated(db_file))
        => engine.ret = "NULL"

----------------------------------------------------------------------------
(* Claims about threads *)

\* The accesses to the shared table that the next step of thread t makes.
Rd(var, i) == [var |-> var, i |-> i, write |-> FALSE]
Wr(var, i) == [var |-> var, i |-> i, write |-> TRUE]

NextAccess(t) ==
    CASE tpc[t] = "load_check" -> {Rd("norm_rules_loaded", 0)}
      [] tpc[t] = "load_open" ->
            IF csv.present THEN {Wr("norm_rule_count", 0)} ELSE {Wr("norm_rules_loaded", 0)}
      [] tpc[t] = "load_line" ->
            IF fline[t] < csv.lines THEN {Rd("norm_rule_count", 0)}
            ELSE {Wr("norm_rules_loaded", 0)}
      [] tpc[t] = "load_regcomp" -> {Wr("norm_rules", ti[t])}
      [] tpc[t] = "load_count" -> {Wr("norm_rule_count", 0)}
      [] tpc[t] = "apply_check" -> {Rd("norm_rule_count", 0)}
      [] tpc[t] = "apply_loop" ->
            {Rd("norm_rule_count", 0)}
                \cup (IF ti[t] < norm_rule_count THEN {Rd("norm_rules", ti[t])} ELSE {})
      [] tpc[t] = "apply_exec" -> {Rd("norm_rules", ti[t])}
      [] tpc[t] = "free_loop" ->
            {Rd("norm_rule_count", 0)}
                \cup (IF ti[t] < norm_rule_count
                      THEN {IF norm_rules[ti[t]].compiled # 0 THEN Wr("norm_rules", ti[t]) ELSE Rd("norm_rules", ti[t])}
                      ELSE {})
      [] tpc[t] = "free_reset" -> {Wr("norm_rule_count", 0), Wr("norm_rules_loaded", 0)}
      [] OTHER -> {}

\* The next steps of two threads touch the same object and one of them writes it.
Race ==
    \E t \in Threads, u \in Threads :
        /\ t # u
        /\ \E a \in NextAccess(t), b \in NextAccess(u) :
              a.var = b.var /\ a.i = b.i /\ (a.write \/ b.write)

\* A thread is about to run regexec on a regex that is not compiled: it was
\* regfree'd after the thread tested rule->compiled.
UseAfterFree ==
    \E t \in Threads :
        tpc[t] = "apply_exec" /\ norm_rules[ti[t]].regex # "compiled"

\* C4: with a handle per thread, ctts_synthesize and ctts_free run concurrently
\* without one thread reading or using state that the other is writing or has
\* freed.
C4_NoSharedStateConflict == ~Race /\ ~UseAfterFree
----------------------------------------------------------------------------
(* Claims about the pauses, the counters and the unknown characters *)

\* The match event at j is the first one after the event at i.
FirstMatchAfter(i, j) ==
    /\ i < j
    /\ trace[j].kind = "match"
    /\ \A m \in (i + 1)..(j - 1) : trace[m].kind # "match"

\* C11: no crossfade happens across a whitespace boundary. The whitespace branch
\* appends exactly word_pause_samples zero samples to what silence removal left
\* of the buffer, and the first unit emitted after it is appended in full
\* through the fade-in branch: the buffer grows by the unit's sample count and
\* no sample already in the buffer is overwritten.
C11_NoCrossfadeAcrossWhitespace ==
    \A i \in 1..Len(trace) :
        trace[i].kind = "space" =>
            /\ trace[i].after - trace[i].trimmed = SamplesOf(config.word_pause_ms)
            /\ \A j \in 1..Len(trace) :
                  FirstMatchAfter(i, j) =>
                      /\ trace[j].aws
                      /\ trace[j].k = 0
                      /\ trace[j].after - trace[j].before = trace[j].unit_count
                      /\ trace[j].unit_count > 0 => trace[j].branch = "fade_in"

\* The step taken is the loop's no-match branch.
NoMatchStep ==
    /\ Len(trace') = Len(trace) + 1
    /\ trace'[Len(trace')].kind = "nomatch"

\* C12: when the selector finds no unit at the current position, that step
\* appends exactly unknown_silence zero samples, advances the position by the
\* byte length of exactly one UTF-8 code point, adds one to units_missing and
\* leaves units_found as it was.
C12_NoMatchSilence ==
    [][NoMatchStep =>
          /\ BufCount(buf') - BufCount(buf) = SamplesOf(config.unknown_silence_ms)
          /\ pos' = ctts_utf8_next(fold, pos).next
          /\ units_missing' = units_missing + 1
          /\ units_found' = units_found]_vars

\* The loop steps that called the unit selector.
SelectorCalls == {i \in 1..Len(trace) : trace[i].kind \in {"match", "nomatch"}}

\* C13: in a call that got to the segmentation loop, and after its successful
\* return, units_found + units_missing is the number of loop steps that called
\* the unit selector (the steps that were not whitespace, hyphen, punctuation
\* or a skipped bracket or quote), whatever the counters held when the call
\* started.
C13_CountersCountSelectorCalls ==
    (spc = "loop" \/ (spc = "done" /\ err = CTTS_OK)) =>
        /\ units_found + units_missing = Cardinality(SelectorCalls)
        /\ units_found = Cardinality({i \in SelectorCalls : trace[i].kind = "match"})

\* A successful call that matched a unit, missed a character and took a step
\* that is not counted.
C13_Witness ==
    /\ spc = "done" /\ err = CTTS_OK
    /\ units_found >= 1 /\ units_missing >= 1
    /\ \E i \in 1..Len(trace) : trace[i].kind \in {"space", "hyphen", "punct", "skip"}

\* C14: a text of exactly one space, synthesized at speed 1.0, when the call
\* returns success yields exactly word_pause_samples =
\* floor(word_pause_ms * 22050 / 1000) samples, all of them zero: the one word
\* pause and nothing else.
C14_SingleSpacePause ==
    (text = <<32>> /\ speed = 1000 /\ spc = "done" /\ err = CTTS_OK) =>
        /\ sample_count = SamplesOf(config.word_pause_ms)
        /\ buf = <<Run("pause", -1, SamplesOf(config.word_pause_ms))>>

\* C16: at speed 1.0 the time-stretch pass hands back exactly as many samples
\* as were fed to it: a successful call returns the count of the buffer the
\* loop built, trailing zeros included.
C16_UnitSpeedKeepsCount ==
    (spc = "done" /\ err = CTTS_OK /\ speed = 1000) => sample_count = BufCount(buf)

\* A call at speed 1.0 returned a buffer that ends with the zeros of a pause.
C16_Witness ==
    /\ spc = "done" /\ err = CTTS_OK /\ speed = 1000
    /\ sample_count > frame_size
    /\ buf # <<>> /\ buf[Len(buf)].kind = "pause"
    /\ \E k \in 1..Len(buf) : buf[k].kind = "unit"

\* C18: the segmentation loop terminates. Every iteration that stays in the
\* loop moves the position forward by at least one byte, and the position never
\* passes the terminating NUL of the folded text (index Len(fold) + 1),
\* whatever the input bytes and the unit store are.
C18_LoopAdvances ==
    [][(spc = "loop" /\ spc' = "loop") =>
          /\ pos' >= pos + 1
          /\ pos' <= Len(fold) + 1]_vars

\* A call on a text that is not UTF-8 has returned: the loop stepped over a
\* three-byte code point in one iteration and stopped on the NUL.
C18_Witness ==
    /\ spc = "done" /\ err = CTTS_OK
    /\ text = <<226, 97>>
    /\ pos = Len(fold) + 1
    /\ \E i \in 1..Len(trace) : trace[i].kind = "nomatch" /\ trace[i].advance = 3

\* C19: the candidates at a position stop before the next whitespace, so no
\* selected unit covers a whitespace character or text beyond it: the bytes
\* that a match step consumes hold no space, tab, newline or carriage return.
C19_NoUnitAcrossWhitespace ==
    \A i \in 1..Len(trace) :
        trace[i].kind = "match" =>
            \A p \in trace[i].pos..(trace[i].pos + trace[i].advance - 1) :
                At(fold, p) \notin {32, 9, 10, 13}

\* The next step hands a region to remove_silence_regions: the loop is at a
\* whitespace character or at the end of the text, removal is configured and
\* the samples since word_start_sample are more than min_silence_samples.
RemovalRegion == DropFront(buf, word_start_sample)

RemovalDue ==
    /\ spc = "loop"
    /\ At(fold, pos) \in {0, 32, 9, 10, 13}
    /\ config.remove_word_silence
    /\ BufCount(buf) > word_start_sample
    /\ BufCount(buf) - word_start_sample > SamplesOf(config.min_silence_ms)

\* C20: within-word silence removal only processes samples appended since the
\* most recent word-boundary event (whitespace or one of , ; : . ! ?): the
\* region handed to remove_silence_regions never holds the silence of a
\* punctuation pause, which therefore is never shortened.
C20_RemovalSparesPauses ==
    RemovalDue => \A k \in 1..Len(RemovalRegion) : RemovalRegion[k].kind # "pause"

----------------------------------------------------------------------------
(* Claims about sample arithmetic and the fold *)

\* C15: every arithmetic result stored into a 16-bit sample saturates to
\* [-32768, 32767] rather than wrapping around, in every stage: the crossfade
\* mix, the overlap-add accumulation of the time-stretch and its normalisation.
C15_SamplesSaturate == stored.value = Clamp16(stored.result)

\* C17: the fold is idempotent: for every byte string, well-formed UTF-8 or
\* not, ctts_normalize(ctts_normalize(s)) = ctts_normalize(s).
C17_FoldIdempotent == spc = "refolded" => fold = ctts_normalize(text)

\* A string that is not UTF-8 and holds an upper-case letter was folded twice,
\* and the fold changed it.
C17_Witness ==
    /\ spc = "refolded"
    /\ fold # text /\ fold # <<>>
    /\ \E i \in 1..Len(text) : text[i] = 65
    /\ \E i \in 1..Len(text) : text[i] >= 128 /\ ctts_utf8_next(text, i).next = i + 1

----------------------------------------------------------------------------
(* Claims about the selector's keys, the word-start flag and the crossfade *)

\* The loop is about to call the selector.
SelectorDue == spc = "loop" /\ At(fold, pos) # 0 /\ IsUnitChar(At(fold, pos))

\* The number of characters of the look-ahead match of a candidate: the
\* characters in next_match_len bytes after the whitespace that follows it.
LookaheadChars(cand) ==
    ctts_utf8_strlen(Bytes(fold, SkipLookaheadSpace(fold, pos + cand.byte_len),
                           cand.next_match_len), 1)

\* C21: the coverage key that ranks the candidates is char_count +
\* lookahead_chars, the look-ahead match being counted in characters as
\* char_count is, also when the look-ahead match holds multi-byte characters.
C21_CoverageInCharacters ==
    SelectorDue =>
        \A cands \in {Candidates(db, fold, pos, db.max_unit_chars,
                                 prev_was_word_boundary)} :
            \A i \in 1..Len(cands) :
                cands[i].char_count + cands[i].next_match_len
                    = cands[i].char_count + LookaheadChars(cands[i])

\* The coverage the selection loop ranks a candidate by: "total", its
\* characters plus its look-ahead term next_match_len.
Coverage(cand) == cand.char_count + cand.next_match_len

\* Candidate a is ahead of candidate b under the ordered keys: the phonotactic
\* score, then the coverage, then the tie-break (a look-ahead of 0 beats one
\* that is not 0; else the longer look-ahead).
Ahead(a, b) ==
    \/ a.pt_score > b.pt_score
    \/ /\ a.pt_score = b.pt_score
       /\ \/ Coverage(a) > Coverage(b)
          \/ /\ Coverage(a) = Coverage(b)
             /\ \/ a.next_match_len = 0 /\ b.next_match_len # 0
                \/ /\ a.next_match_len # 0 /\ b.next_match_len # 0
                   /\ a.next_match_len > b.next_match_len

\* The candidates in another order.
Reordered(cands) ==
    {[i \in 1..Len(cands) |-> cands[f[i]]] : f \in IndexPerms(Len(cands))}

\* C22: the unit chosen among the surviving candidates is the maximum under
\* the ordered keys (score, coverage, tie-break), and the choice does not depend
\* on the order in which the candidates are compared.
C22_SelectionIsMaximum ==
    SelectorDue =>
        \A cands \in {Candidates(db, fold, pos, db.max_unit_chars,
                                 prev_was_word_boundary)} :
            Len(cands) >= 1 =>
                /\ \A i \in 1..Len(cands) :
                      cands[i].unit_idx = SelectBest(cands).idx
                          => \A j \in 1..Len(cands) : ~Ahead(cands[j], cands[i])
                /\ \A other \in Reordered(cands) :
                      SelectBest(other) = SelectBest(cands)

\* The selector is called where two candidates have the same score and the
\* same coverage, so that the tie-break decides, and the second one compared
\* is chosen.
C22_Witness ==
    /\ SelectorDue
    /\ \E cands \in {Candidates(db, fold, pos, db.max_unit_chars,
                                 prev_was_word_boundary)} :
          /\ Len(cands) >= 2
          /\ cands[1].pt_score = cands[2].pt_score
          /\ Coverage(cands[1]) = Coverage(cands[2])
          /\ SelectBest(cands).idx = cands[2].unit_idx

\* The index of the last whitespace or punctuation event, 0 when there is none.
RECURSIVE LastBoundary(_)
LastBoundary(i) ==
    IF i = 0 THEN 0
    ELSE IF trace[i].kind \in {"space", "punct"} THEN i
    ELSE LastBoundary(i - 1)

\* C23 as stated: the at-word-start flag is true after initialisation and after
\* every whitespace or punctuation character, and false whenever the most
\* recent event is anything else (a matched unit, an unknown character, a
\* hyphen, a skipped bracket or quote).
C23_FlagFollowsLastEvent_AsStated ==
    spc = "loop" =>
        (prev_was_word_boundary <=>
            (trace = <<>> \/ trace[Len(trace)].kind \in {"space", "punct"}))

\* C23, amended: the flag is true after initialisation and after every
\* whitespace or punctuation character, and it is false exactly when a unit
\* has been matched since; an unknown character, a hyphen and a skipped
\* bracket or quote leave it as it is.
C23_FlagClearedByMatchOnly ==
    spc = "loop" =>
        (prev_was_word_boundary <=>
            ~\E j \in (LastBoundary(Len(trace)) + 1)..Len(trace) :
                 trace[j].kind = "match")

\* After a boundary an unknown character was stepped over and the flag is
\* still set; and in another state a hyphen follows a unit with the flag clear.
C23_Witness ==
    /\ spc = "loop"
    /\ Len(trace) >= 2
    /\ trace[Len(trace)].kind \in {"nomatch", "hyphen", "skip"}
    /\ \/ /\ prev_was_word_boundary
          /\ trace[Len(trace) - 1].kind \in {"space", "punct"}
       \/ /\ ~prev_was_word_boundary
          /\ trace[Len(trace) - 1].kind = "match"


\* The prefixes of the text at pos that the selector looks up: byte lengths of
\* 1 .. try_chars characters.
TriedLengths ==
    {EndAfter(fold, pos, n) - pos :
        n \in 1..Min(db.max_unit_chars, RemainingChars(fold, pos))}

\* The tried prefix of byte_len bytes is in the store and is not in the
\* candidate list.
Discarded(byte_len) ==
    /\ find_unit(db, Bytes(fold, pos, byte_len)) >= 0
    /\ \A cands \in {Candidates(db, fold, pos, db.max_unit_chars,
                                prev_was_word_boundary)} :
          \A i \in 1..Len(cands) : cands[i].byte_len # byte_len

\* The rule as stated: one character, a consonant, at a word start or before
\* the second letter of ch, lh, nh, qu or gu.
ConsonantRule(byte_len) ==
    \E d \in {ctts_utf8_next(fold, pos)} :
       /\ ctts_utf8_strlen(Bytes(fold, pos, byte_len), 1) = 1
       /\ is_pt_consonant(d.cp)
       /\ \/ prev_was_word_boundary
          \/ \E e \in {ctts_utf8_next(fold, d.next)} :
                /\ d.cp < 128
                /\ e.cp < 128
                /\ is_pt_digraph(d.cp, e.cp, 2)

\* C24: a stored prefix is discarded by the phonotactic rule iff it is a single
\* consonant (an ASCII letter that is not a vowel, or c-cedilla) at a word start
\* or splitting a digraph; vowels, non-letters and longer prefixes are kept.
C24_RejectsOnlyConsonants ==
    SelectorDue =>
        \A byte_len \in TriedLengths :
            find_unit(db, Bytes(fold, pos, byte_len)) >= 0
                => (Discarded(byte_len) <=> ConsonantRule(byte_len))

\* The crossfade of the table, for the class the previous unit ends in and the
\* class the next one starts with.
TableCrossfade(prev_end, next_start) ==
    CASE next_start = "PLOSIVE" -> (config.crossfade_ms * 2) \div 10
      [] next_start # "PLOSIVE" /\ prev_end = "PLOSIVE" -> (config.crossfade_ms * 3) \div 10
      [] "FRICATIVE" \in {prev_end, next_start}
         /\ "PLOSIVE" \notin {prev_end, next_start} -> (config.crossfade_ms * 4) \div 10
      [] prev_end = "VOWEL" /\ next_start = "VOWEL" -> config.crossfade_vowel_ms
      [] prev_end = "VOWEL" /\ next_start \in {"NASAL", "LIQUID", "OTHER"} ->
            (config.crossfade_ms * config.vowel_to_consonant_factor) \div 100
      [] prev_end \in {"NASAL", "LIQUID"} /\ next_start \in {"VOWEL", "NASAL", "LIQUID", "OTHER"} ->
            (config.crossfade_ms * 7) \div 10
      [] prev_end = "OTHER" /\ next_start \in {"NASAL", "LIQUID"} ->
            (config.crossfade_ms * 7) \div 10
      [] prev_end = "OTHER" /\ next_start \in {"VOWEL", "OTHER"} -> config.crossfade_ms

\* The table's value, held at or below the s-ending or r-ending crossfade when
\* the previous unit's text ends in s or r.
ClampedCrossfade(prev_text, next_text) ==
    LET table == TableCrossfade(classify_last_phoneme(prev_text),
                                classify_first_phoneme(next_text))
        last == prev_text[Len(prev_text)]
    IN  IF last \in {115, 83} THEN Min(table, config.crossfade_s_ending_ms)
        ELSE IF last \in {114, 82} THEN Min(table, config.crossfade_r_ending_ms)
        ELSE table

\* A unit appended inside a word, after another unit.
InWordJoin(e) == e.kind = "match" /\ ~e.aws /\ e.prev # -1

\* C25: the crossfade of every in-word join is the value of the priority table
\* for the two phoneme classes, cut to the s-ending or r-ending crossfade when
\* the previous unit ends in s or r.
C25_CrossfadeFollowsTable ==
    \A i \in 1..Len(trace) :
        InWordJoin(trace[i]) =>
            trace[i].crossfade_ms =
                ClampedCrossfade(UnitText(db, trace[i].prev), UnitText(db, trace[i].idx))

\* "ar" and then "e" with the r-ending crossfade at 7 ms: liquid to vowel gives
\* 14 ms, and the join is cut to 7.
C25_Witness ==
    /\ spc = "done"
    /\ err = CTTS_OK
    /\ config.crossfade_r_ending_ms = 700
    /\ \E i \in 1..Len(trace) :
          /\ InWordJoin(trace[i])
          /\ UnitText(db, trace[i].prev) = <<97, 114>>
          /\ UnitText(db, trace[i].idx) = <<101>>
          /\ trace[i].crossfade_ms = 700
----------------------------------------------------------------------------
(* Number expansion *)

\* The digit run written with twelve digits, zeros in front.
Padded12(ds) ==
    [i \in 1..12 |-> IF i <= 12 - Len(ds) THEN 48 ELSE ds[i - (12 - Len(ds))]]

\* The value of group g of a twelve-digit run: 1 is the billions, 4 the units.
GroupValue(ds, g) ==
    ((Padded12(ds)[(3 * g) - 2] - 48) * 100) + ((Padded12(ds)[(3 * g) - 1] - 48) * 10)
    + (Padded12(ds)[3 * g] - 48)

\* A group of 1..999 spelled out: "cem" for one hundred, else the hundreds
\* word, " e ", and the word of 1..19 or the tens word, " e ", the unit word.
SpelledGroup(v) ==
    LET below == v % 100
        spelled_below ==
            IF below = 0 THEN <<>>
            ELSE IF below < 20 THEN units_pt[below + 1]
            ELSE IF below % 10 = 0 THEN tens_pt[(below \div 10) + 1]
            ELSE tens_pt[(below \div 10) + 1] \o <<32, 101, 32>> \o units_pt[(below % 10) + 1]
    IN IF v = 100 THEN <<99, 101, 109>>
       ELSE IF v < 100 THEN spelled_below
       ELSE IF below = 0 THEN hundreds_pt[(v \div 100) + 1]
       ELSE hundreds_pt[(v \div 100) + 1] \o <<32, 101, 32>> \o spelled_below

\* The spelling of a run of at most twelve digits by the classical
\* decomposition into billions, millions, thousands and what is left.
ClassicalSpelling(ds) ==
    LET g1 == GroupValue(ds, 1)
        g2 == GroupValue(ds, 2)
        g3 == GroupValue(ds, 3)
        g4 == GroupValue(ds, 4)
    IN IF g1 + g2 + g3 + g4 = 0 THEN <<122, 101, 114, 111>>
       ELSE (IF g1 = 0 THEN <<>>
             ELSE SpelledGroup(g1)
                  \o (IF g1 = 1 THEN <<32, 98, 105, 108, 104, 195, 163, 111>> ELSE <<32, 98, 105, 108, 104, 195, 181, 101, 115>>)
                  \o (IF g2 + g3 + g4 > 0 THEN <<32, 101, 32>> ELSE <<>>))
            \o (IF g2 = 0 THEN <<>>
                ELSE SpelledGroup(g2)
                     \o (IF g2 = 1 THEN <<32, 109, 105, 108, 104, 195, 163, 111>> ELSE <<32, 109, 105, 108, 104, 195, 181, 101, 115>>)
                     \o (IF g3 + g4 > 0 THEN <<32, 101, 32>> ELSE <<>>))
            \o (IF g3 = 0 THEN <<>>
                ELSE (IF g3 = 1 THEN <<109, 105, 108>> ELSE SpelledGroup(g3) \o <<32, 109, 105, 108>>)
                     \o (IF g4 = 0 THEN <<>>
                         ELSE IF g4 < 100 THEN <<32, 101, 32>> ELSE <<32>>))
            \o (IF g4 = 0 THEN <<>> ELSE SpelledGroup(g4))

\* C26: a run of at most twelve digits is converted without leaving defined
\* behaviour, and the words written are the classical spelling of its value:
\* "zero", "cem" for a group of exactly 100, single words for 10..19, " e "
\* between tens and units, "mil" alone for one thousand, and after the thousands
\* " e " before a remainder below 100, else a space.
C26_ClassicalSpelling ==
    Len(digit_run) <= 12 =>
        /\ npc # "undefined"
        /\ npc = "done" => words_buf = ClassicalSpelling(digit_run)

\* 1001019 is expanded to "um milhão e mil e dezenove".
C26_Witness ==
    /\ npc = "done"
    /\ digit_run = <<49, 48, 48, 49, 48, 49, 57>>
    /\ words_buf = <<117, 109, 32, 109, 105, 108, 104, 195, 163, 111, 32, 101, 32, 109, 105, 108, 32, 101, 32, 100, 101, 122, 101, 110, 111, 118, 101>>

\* C27: for a digit run of any length the parsed value stays within its integer
\* type, and every index read in units_pt, tens_pt and hundreds_pt is within
\* the table.
C27_ParseAndTablesInRange ==
    /\ ~overflowed
    /\ \A read \in table_reads : InTable(read)
----------------------------------------------------------------------------
(* Prosody and silence removal *)

\* The loop is at a whitespace character or at the end of the text with a
\* completed word in the buffer: apply_declination, and for a question
\* apply_question_intonation, are called with current_word_index.
ProsodyDue ==
    /\ spc = "loop"
    /\ At(fold, pos) \in {0, 32, 9, 10, 13}
    /\ \E trimmed \in RemoveWordSilence(buf, word_start_sample, config) :
          BufCount(trimmed) > word_start_sample

\* C28: whenever declination or question intonation is applied to a completed
\* word, the word index is at least 0 and at most word_count - 1.
C28_WordIndexInRange ==
    ProsodyDue =>
        /\ 0 <= current_word_index
        /\ current_word_index <= prosody.word_count - 1

\* out is region with some of its samples left out.
RECURSIVE IsSubsequence(_, _)
IsSubsequence(out, region) ==
    IF out = <<>> THEN TRUE
    ELSE IF region = <<>> THEN FALSE
    ELSE IF Head(out) = Head(region) THEN IsSubsequence(Tail(out), Tail(region))
    ELSE IsSubsequence(out, Tail(region))

\* C29: remove_silence_regions never lengthens the region: the write position
\* never passes the read position, the returned count is at most the input
\* count, and the samples retained are samples of the region in their order.
C29_RegionNeverGrows ==
    /\ write_pos <= read_pos
    /\ rpc = "done" =>
          /\ new_word_len <= region_count
          /\ IsSubsequence(SubSeq(region_samples, 1, new_word_len), region_orig)

----------------------------------------------------------------------------
(* The selected units and the folded text *)

\* What the iterations stand for, in order: the stored text of each unit
\* that was selected, and the bytes of fold each other iteration passed over.
RECURSIVE Reconstructed(_)
Reconstructed(events) ==
    IF events = <<>> THEN <<>>
    ELSE Reconstructed(SubSeq(events, 1, Len(events) - 1))
         \o (IF events[Len(events)].kind = "match"
             THEN UnitText(db, events[Len(events)].idx)
             ELSE SubSeq(fold, events[Len(events)].pos,
                         events[Len(events)].pos + events[Len(events)].advance - 1))

\* C30: whenever the selector returns a unit, the advance is the unit's
\* string_len and the unit's stored text is the advance bytes of the folded text
\* at that position; the selected units' texts and the characters passed over
\* make up the folded text as far as the loop has come.
C30_UnitsReconstructText ==
    /\ \A i \in 1..Len(trace) :
          trace[i].kind = "match" =>
             /\ trace[i].advance = db.index[trace[i].idx + 1].string_len
             /\ UnitText(db, trace[i].idx)
                   = SubSeq(fold, trace[i].pos, trace[i].pos + trace[i].advance - 1)
    /\ spc \in {"loop", "done"} /\ err = CTTS_OK =>
          Reconstructed(trace) = SubSeq(fold, 1, pos - 1)

\* "caa" with units for "ca" and "a": "ca" and "a" are selected and the call
\* returns.
C30_Witness ==
    /\ spc = "done"
    /\ err = CTTS_OK
    /\ fold = <<99, 97, 97>>
    /\ Len(trace) = 2
    /\ trace[1].kind = "match" /\ UnitText(db, trace[1].idx) = <<99, 97>>
    /\ trace[2].kind = "match" /\ UnitText(db, trace[2].idx) = <<97>>
====
